---- MODULE Spec2Model ----
(***************************************************************************)
(* mapchete.stac.tiled_assets: the codec between a tile pyramid and the    *)
(* OGC TileMatrixSet embedded in a STAC tiled-assets item (STACTA).        *)
(*                                                                         *)
(* Values: an optional value is a sequence, <<>> for None and <<v>> for v. *)
(* A call that may raise returns [ok |-> TRUE, value |-> v] or             *)
(* [ok |-> FALSE, error |-> [type, msg]].                                  *)
(* Coordinates are integers: degrees for EPSG:4326, metres for EPSG:3857   *)
(* (the half extent 20037508.342789244 is cut to 20037508).                *)
(***************************************************************************)
EXTENDS Integers, Sequences, FiniteSets, TLC

VARIABLES item, tms, out, twin, calls, tiled_asset

vars == <<item, tms, out, twin, calls, tiled_asset>>

----------------------------------------------------------------------------
(* Bounds of the model *)

\* highest zoom level of a tile pyramid handed to the TileMatrixSet builder
MaxZoom == 6
\* highest zoom level of a TileMatrix entry of a parsed document
MaxDocZoom == 2
\* longest tileMatrix list of a parsed document
MaxDocEntries == 2
\* highest zoom level of an item whose bounds and tile limits are read
MaxItemZoom == 2

----------------------------------------------------------------------------
(* Plain helpers *)

None == <<>>
Some(v) == <<v>>

Ok(v) == [ok |-> TRUE, value |-> v]
Raise(type, msg) == [ok |-> FALSE, error |-> [type |-> type, msg |-> msg]]

Max(a, b) == IF a < b THEN b ELSE a
Min(a, b) == IF a < b THEN a ELSE b
CeilDiv(a, b) == (a + b - 1) \div b

RECURSIVE Pow2(_)
Pow2(n) == IF n = 0 THEN 1 ELSE 2 * Pow2(n - 1)

\* the elements of a finite set of integers, ascending
RECURSIVE Ascending(_)
Ascending(S) ==
    IF S = {} THEN <<>>
    ELSE LET lo == CHOOSE x \in S : \A y \in S : x <= y
         IN <<lo>> \o Ascending(S \ {lo})

Range(s) == {s[i] : i \in 1..Len(s)}

\* Python's str() of a non-negative int: its decimal digits
Digit(d) ==
    CASE d = 0 -> "0" [] d = 1 -> "1" [] d = 2 -> "2" [] d = 3 -> "3"
      [] d = 4 -> "4" [] d = 5 -> "5" [] d = 6 -> "6" [] d = 7 -> "7"
      [] d = 8 -> "8" [] d = 9 -> "9"

RECURSIVE str(_)
str(n) == IF n < 10 THEN Digit(n) ELSE str(n \div 10) \o Digit(n % 10)

\* Python's int() of a decimal string, for the numerals the model writes
ParseLimit == 99
int(s) == CHOOSE n \in 0..ParseLimit : str(n) = s

----------------------------------------------------------------------------
(* Module constants of tiled_assets.py *)

TILED_ASSETS_VERSION == "v1.0.0"
EO_VERSION == "v1.1.0"
OUT_PIXEL_SIZE == "0.28e-3"
UNIT_TO_METER(grid, default) ==
    CASE grid = "mercator" -> "1"
      [] grid = "geodetic" -> "111319.4907932732"
      [] OTHER -> default

----------------------------------------------------------------------------
(* The tile pyramid (mapchete.tile.BufferedTilePyramid over tilematrix)    *)

GeodeticGrid ==
    [type |-> "geodetic", shape |-> [width |-> 2, height |-> 1],
     bounds |-> [left |-> -180, bottom |-> -90, right |-> 180, top |-> 90],
     crs |-> "EPSG:4326", is_global |-> TRUE]

MercatorGrid ==
    [type |-> "mercator", shape |-> [width |-> 1, height |-> 1],
     bounds |-> [left |-> -20037508, bottom |-> -20037508,
                 right |-> 20037508, top |-> 20037508],
     crs |-> "EPSG:3857", is_global |-> TRUE]

\* a user-defined grid: 3 x 2 tiles of 100 units at zoom 0, in a UTM zone
CustomGrid ==
    [type |-> "custom", shape |-> [width |-> 3, height |-> 2],
     bounds |-> [left |-> 0, bottom |-> 0, right |-> 300, top |-> 200],
     crs |-> "EPSG:32630", is_global |-> FALSE]

\* a user-defined grid whose CRS has no authority code
LocalGrid == [CustomGrid EXCEPT !.crs = "LOCAL_CS"]

\* the grid of a well-known grid name
GridDefinition(name) ==
    CASE name = "geodetic" -> GeodeticGrid
      [] name = "mercator" -> MercatorGrid

DefaultTileSize == 256

BufferedTilePyramid(grid, metatiling) ==
    [grid |-> grid, metatiling |-> metatiling,
     tile_size |-> DefaultTileSize, pixelbuffer |-> 0]

matrix_width(tp, zoom) ==
    Max(1, CeilDiv(tp.grid.shape.width * Pow2(zoom), tp.metatiling))

matrix_height(tp, zoom) ==
    Max(1, CeilDiv(tp.grid.shape.height * Pow2(zoom), tp.metatiling))

tile_width(tp, zoom) ==
    LET matrix_pixel == Pow2(zoom) * tp.tile_size * tp.grid.shape.width
        tile_pixel == tp.tile_size * tp.metatiling
    IN IF tile_pixel > matrix_pixel THEN matrix_pixel ELSE tile_pixel

tile_height(tp, zoom) ==
    LET matrix_pixel == Pow2(zoom) * tp.tile_size * tp.grid.shape.height
        tile_pixel == tp.tile_size * tp.metatiling
    IN IF tile_pixel > matrix_pixel THEN matrix_pixel ELSE tile_pixel

\* a pixel's width at a zoom, as the fraction <<numerator, denominator>>
pixel_x_size(tp, zoom) ==
    <<tp.grid.bounds.right - tp.grid.bounds.left,
      tp.grid.shape.width * Pow2(zoom) * tp.tile_size>>

----------------------------------------------------------------------------
(* CRS Authority Resolver *)

\* pyproj's CRS.to_authority(): None for a CRS without an authority code
to_authority(crs) ==
    CASE crs = "EPSG:4326" -> Some(<<"EPSG", "4326">>)
      [] crs = "EPSG:3857" -> Some(<<"EPSG", "3857">>)
      [] crs = "EPSG:32630" -> Some(<<"EPSG", "32630">>)
      [] OTHER -> None

crs_to_authority(crs) ==
    IF to_authority(crs) = None
    THEN Raise("ValueError", "cannot convert CRS to authority")
    ELSE Ok(to_authority(crs)[1])

crs_to_uri(crs, version) ==
    LET a == crs_to_authority(crs)
    IN IF ~a.ok THEN a
       ELSE Ok("http://www.opengis.net/def/crs/" \o a.value[1] \o "/"
               \o str(version) \o "/" \o a.value[2])

\* the URN is written with the URI's separators
crs_to_urn_as_uri(crs) ==
    LET a == crs_to_authority(crs)
    IN IF ~a.ok THEN a
       ELSE Ok("urn:ogc:def:crs:" \o a.value[1] \o "/" \o a.value[2])

crs_to_urn(crs) ==
    LET a == crs_to_authority(crs)
    IN IF ~a.ok THEN a
       ELSE Ok("urn:ogc:def:crs:" \o a.value[1] \o "::" \o a.value[2])

----------------------------------------------------------------------------
(* Bounds (mapchete.bounds.Bounds): left <= right, bottom <= top *)

Bounds(left, bottom, right, top, crs) ==
    [left |-> left, bottom |-> bottom, right |-> right, top |-> top,
     crs |-> crs]

BoundsValid(b) == b.left <= b.right /\ b.bottom <= b.top

\* Bounds.from_inp(bounds, crs=crs): the given CRS is attached
Bounds_from_inp(b, crs) == Bounds(b.left, b.bottom, b.right, b.top, crs)

\* Bounds.from_inp of a list [left, bottom, right, top]
Bounds_from_list(l) == Bounds(l[1], l[2], l[3], l[4], None)

----------------------------------------------------------------------------
(* BoundingBox, TileMatrix, TileMatrixSet *)

BoundingBox_from_bounds(bounds) ==
    IF bounds.crs = None THEN Raise("ValueError", "bounds.crs must be set")
    ELSE LET uri == crs_to_uri(bounds.crs[1], 0)
         IN IF ~uri.ok THEN uri
            ELSE Ok([type |-> "BoundingBoxType",
                     crs |-> uri.value,
                     upperCorner |-> <<bounds.left, bounds.top>>,
                     lowerCorner |-> <<bounds.right, bounds.bottom>>])

scale(grid, pixel_x_size_, default_unit_to_meter) ==
    [unit_to_meter |-> UNIT_TO_METER(grid, default_unit_to_meter),
     pixel_x_size |-> pixel_x_size_,
     out_pixel_size |-> OUT_PIXEL_SIZE]

TileMatrix(tile_pyramid, zoom) ==
    [type |-> "TileMatrixType",
     identifier |-> str(zoom),
     scaleDenominator |->
         scale(tile_pyramid.grid.type, pixel_x_size(tile_pyramid, zoom), "1"),
     topLeftCorner |->
         <<tile_pyramid.grid.bounds.left, tile_pyramid.grid.bounds.top>>,
     tileWidth |-> tile_width(tile_pyramid, zoom),
     tileHeight |-> tile_height(tile_pyramid, zoom),
     matrixWidth |-> matrix_width(tile_pyramid, zoom),
     matrixHeight |-> matrix_height(tile_pyramid, zoom)]

\* the last zoom level is left out (an exclusive upper end)
tileMatrixList_without_last(tile_pyramid, zoom_levels) ==
    [i \in 1..(Len(zoom_levels) - 1) |->
        TileMatrix(tile_pyramid, zoom_levels[i])]

\* [TileMatrix(...) for zoom in zoom_levels]
tileMatrixList(tile_pyramid, zoom_levels) ==
    [i \in 1..Len(zoom_levels) |-> TileMatrix(tile_pyramid, zoom_levels[i])]

WKSS_GoogleCRS84Quad ==
    "http://www.opengis.net/def/wkss/OGC/1.0/GoogleCRS84Quad"
WKSS_GoogleMapsCompatible ==
    "http://www.opengis.net/def/wkss/OGC/1.0/GoogleMapsCompatible"

TileMatrixSet_from_tile_pyramid(tile_pyramid, zoom_levels) ==
    LET grid == tile_pyramid.grid.type
        boundingBox == BoundingBox_from_bounds(
            Bounds_from_inp(tile_pyramid.grid.bounds,
                            Some(tile_pyramid.grid.crs)))
        tileMatrix == tileMatrixList(tile_pyramid, zoom_levels)
    IN CASE grid = "geodetic" ->
            IF ~boundingBox.ok THEN boundingBox
            ELSE Ok([type |-> "TileMatrixSetType",
                     identifier |-> "WorldCRS84Quad",
                     title |-> Some("CRS84 for the World"),
                     supportedCRS |->
                         "http://www.opengis.net/def/crs/OGC/1.3/CRS84",
                     url |-> Some("http://schemas.opengis.net/tms/1.0/json/examples/WorldCRS84Quad.json"),
                     wellKnownScaleSet |-> Some(WKSS_GoogleCRS84Quad),
                     boundingBox |-> boundingBox.value,
                     tileMatrix |-> tileMatrix])
         [] grid = "mercator" ->
            IF ~boundingBox.ok THEN boundingBox
            ELSE Ok([type |-> "TileMatrixSetType",
                     identifier |-> "WebMercatorQuad",
                     title |-> Some("Google Maps Compatible for the World"),
                     supportedCRS |->
                         "http://www.opengis.net/def/crs/EPSG/0/3857",
                     url |-> Some("http://schemas.opengis.net/tms/1.0/json/examples/WebMercatorQuad.json"),
                     wellKnownScaleSet |-> Some(WKSS_GoogleMapsCompatible),
                     boundingBox |-> boundingBox.value,
                     tileMatrix |-> tileMatrix])
         [] OTHER ->
            LET supportedCRS == crs_to_urn(tile_pyramid.grid.crs)
            IN IF ~supportedCRS.ok THEN supportedCRS
               ELSE IF ~boundingBox.ok THEN boundingBox
               ELSE Ok([type |-> "TileMatrixSetType",
                        identifier |-> "custom",
                        title |-> None,
                        supportedCRS |-> supportedCRS.value,
                        url |-> None,
                        wellKnownScaleSet |-> None,
                        boundingBox |-> boundingBox.value,
                        tileMatrix |-> tileMatrix])

\* range(10) of to_tile_pyramid
NumMetatilingOpts == 10

\* [2**x for x in range(10)]
metatiling_opts == [x \in 1..NumMetatilingOpts |-> Pow2(x - 1)]

\* the comparison leaves out the tile height
matches_all_but_tile_height(self, grid, metatiling) ==
    LET tp == BufferedTilePyramid(GridDefinition(grid), metatiling)
    IN \A i \in 1..Len(self.tileMatrix) :
          LET tile_matrix == self.tileMatrix[i]
              zoom == int(tile_matrix.identifier)
          IN /\ tile_matrix.matrixWidth = matrix_width(tp, zoom)
             /\ tile_matrix.matrixHeight = matrix_height(tp, zoom)
             /\ tile_matrix.tileWidth = tile_width(tp, zoom)

\* the inner for loop of to_tile_pyramid runs to its end (no break)
matches_all(self, grid, metatiling) ==
    LET tp == BufferedTilePyramid(GridDefinition(grid), metatiling)
    IN \A i \in 1..Len(self.tileMatrix) :
          LET tile_matrix == self.tileMatrix[i]
              zoom == int(tile_matrix.identifier)
          IN /\ tile_matrix.matrixWidth = matrix_width(tp, zoom)
             /\ tile_matrix.matrixHeight = matrix_height(tp, zoom)
             /\ tile_matrix.tileWidth = tile_width(tp, zoom)
             /\ tile_matrix.tileHeight = tile_height(tp, zoom)

matching_metatiling_opts(self, grid) ==
    SelectSeq(metatiling_opts, LAMBDA m : matches_all(self, grid, m))

\* sorted(matching_metatiling_opts)[-1]: the largest match is taken
LargestOf(opts) == Ascending(Range(opts))[Len(Ascending(Range(opts)))]

\* sorted(matching_metatiling_opts)[0]
SmallestOf(opts) == Ascending(Range(opts))[1]

\* an unknown scale set falls back to the geodetic grid
grid_of_scale_set_lenient(wellKnownScaleSet) ==
    IF wellKnownScaleSet = Some(WKSS_GoogleMapsCompatible)
    THEN Ok("mercator") ELSE Ok("geodetic")

\* match self.wellKnownScaleSet
grid_of_scale_set(wellKnownScaleSet) ==
    IF wellKnownScaleSet = Some(WKSS_GoogleCRS84Quad) THEN Ok("geodetic")
    ELSE IF wellKnownScaleSet = Some(WKSS_GoogleMapsCompatible)
    THEN Ok("mercator")
    ELSE Raise("ValueError",
               "cannot create tile pyramid from unknown scale set")

\* the result carries the warnings logged on the way
to_tile_pyramid(self) ==
    LET grid == grid_of_scale_set(self.wellKnownScaleSet)
    IN IF ~grid.ok THEN grid
       ELSE
       LET matching == matching_metatiling_opts(self, grid.value)
       IN IF Len(matching) = 0
          THEN Raise("ValueError", "cannot determine metatiling setting")
          ELSE IF Len(matching) = 1
          THEN [ok |-> TRUE,
                value |-> BufferedTilePyramid(GridDefinition(grid.value),
                                             matching[1]),
                warnings |-> <<>>]
          ELSE [ok |-> TRUE,
                value |-> BufferedTilePyramid(GridDefinition(grid.value),
                                             SmallestOf(matching)),
                warnings |->
                    <<"multiple possible metatiling settings found">>]

\* ZoomLevels([int(tile_matrix.identifier) for tile_matrix in ...])
\* the last entry is left out
to_zoom_levels_but_last(self) ==
    {int(self.tileMatrix[i].identifier) : i \in 1..(Len(self.tileMatrix) - 1)}

to_zoom_levels(self) ==
    {int(self.tileMatrix[i].identifier) : i \in 1..Len(self.tileMatrix)}

----------------------------------------------------------------------------
(* ZoomLevels (mapchete.zoom_levels.ZoomLevels): a set of zooms, read      *)
(* ascending.  A ZoomLevelsLike input is an int n (value <<n>>), a list     *)
(* (its elements) or a range(lo, hi) (value <<lo, hi>>).                   *)

ZoomInt(n) == [kind |-> "int", value |-> <<n>>]
ZoomList(s) == [kind |-> "list", value |-> s]
ZoomRange(lo, hi) == [kind |-> "range", value |-> <<lo, hi>>]

ZoomLevels_from_inp(zl) ==
    CASE zl.kind = "int" -> {zl.value[1]}
      [] zl.kind = "list" -> Range(zl.value)
      [] zl.kind = "range" -> zl.value[1]..(zl.value[2] - 1)

ZoomLevels_union(self, other) == self \cup ZoomLevels_from_inp(other)

\* for zoom in zoom_levels
ZoomLevels_iter(self) == Ascending(self)

\* Python's truth value of a ZoomLevelsLike argument
ZoomLevelsLikeTruthy(zl) ==
    CASE zl.kind = "int" -> zl.value[1] # 0
      [] zl.kind = "list" -> Len(zl.value) > 0
      [] zl.kind = "range" -> zl.value[1] < zl.value[2]

----------------------------------------------------------------------------
(* Reprojection (mapchete.geometry.reproject_geometry) of a box: the       *)
(* identity within one CRS; EPSG:4326 to EPSG:3857 clips the latitude to   *)
(* the CRS bounds and maps the corners                                     *)

MercatorHalfExtent == MercatorGrid.bounds.right

\* for a longitude that is a multiple of 45 degrees
LonToMercator(lon) == (lon \div 45) * (MercatorHalfExtent \div 4)

LatToMercator(lat) ==
    CASE lat >= 90 -> MercatorHalfExtent
      [] lat = 45 -> 5621521
      [] lat = 0 -> 0
      [] lat = -45 -> -5621521
      [] lat <= -90 -> -MercatorHalfExtent

reproject_geometry(box, src_crs, dst_crs) ==
    IF src_crs = dst_crs THEN box
    ELSE IF src_crs = "EPSG:4326" /\ dst_crs = "EPSG:3857"
    THEN [left |-> LonToMercator(box.left),
          bottom |-> LatToMercator(box.bottom),
          right |-> LonToMercator(box.right),
          top |-> LatToMercator(box.top)]
    ELSE box

\* to_shape(bounds).bounds
to_shape(b) ==
    [left |-> b.left, bottom |-> b.bottom, right |-> b.right, top |-> b.top]

----------------------------------------------------------------------------
(* Tile lookup (tilematrix.TilePyramid.tile_from_xy)                       *)

\* (distance from the pyramid edge) / (tile size), as numerator and
\* denominator: the tile size is extent * metatiling / (shape * 2^zoom)
XNum(tp, x, zoom) ==
    (x - tp.grid.bounds.left) * tp.grid.shape.width * Pow2(zoom)
XDen(tp) == (tp.grid.bounds.right - tp.grid.bounds.left) * tp.metatiling
YNum(tp, y, zoom) ==
    (tp.grid.bounds.top - y) * tp.grid.shape.height * Pow2(zoom)
YDen(tp) == (tp.grid.bounds.top - tp.grid.bounds.bottom) * tp.metatiling

tile_from_xy(tp, x, y, zoom, on_edge_use) ==
    IF \/ x < tp.grid.bounds.left \/ x > tp.grid.bounds.right
       \/ y < tp.grid.bounds.bottom \/ y > tp.grid.bounds.top
    THEN Raise("ValueError", "x or y are outside of grid bounds")
    ELSE
    LET row0 == YNum(tp, y, zoom) \div YDen(tp)
        row == IF on_edge_use \in {"rt", "lt"}
                  /\ YNum(tp, y, zoom) % YDen(tp) = 0
               THEN row0 - 1 ELSE row0
        col0 == XNum(tp, x, zoom) \div XDen(tp)
        col1 == IF on_edge_use \in {"lb", "lt"}
                   /\ XNum(tp, x, zoom) % XDen(tp) = 0
                THEN col0 - 1 ELSE col0
        col == IF tp.grid.is_global
               THEN col1 % matrix_width(tp, zoom) ELSE col1
    IN IF \/ row < 0 \/ row >= matrix_height(tp, zoom)
          \/ col < 0 \/ col >= matrix_width(tp, zoom)
       THEN Raise("TileIndexError", "on_edge_use results in an invalid tile")
       ELSE Ok([zoom |-> zoom, row |-> row, col |-> col])

----------------------------------------------------------------------------
(* STACTA: the stored fields *)

\* pystac.get_stac_version()
STAC_VERSION == "1.1.0"

\* Python's None among string values
PyNone == "<None>"
Truthy(v) == v # PyNone /\ v # ""

EmptyDict == <<>>
Has(dict, key) == key \in DOMAIN dict
Get(dict, key, default) == IF Has(dict, key) THEN dict[key] ELSE default

\* str.replace(old, new) on a template held as a sequence of tokens
\* nothing is replaced
Replace_nothing(template, old, new) == template

Replace(template, old, new) ==
    [i \in 1..Len(template) |->
        IF template[i] = old THEN new ELSE template[i]]

DefaultAssetTemplate == <<"{zoom}", "/", "{row}", "/", "{col}", ".tif">>
DefaultMimeType == "image/tiff; application=geotiff"
DefaultAssetTemplateName == "bands"

STACTA(id, tile_pyramid, zoom_levels, stac_version, assets, bounds, item_metadata, asset_template, mime_type, asset_template_name) ==
    [id |-> id,
     tile_pyramid |-> tile_pyramid,
     zoom_levels |-> zoom_levels,
     stac_version |-> stac_version,
     assets |-> assets,
     bounds |-> bounds,
     item_metadata |-> item_metadata,
     asset_template |-> asset_template,
     mime_type |-> mime_type,
     asset_template_name |-> asset_template_name]

STACTA_from_tile_pyramid(id, tile_pyramid, zoom_levels, asset_template, bounds, item_metadata, mime_type, asset_template_name) ==
    STACTA(id, tile_pyramid, ZoomLevels_from_inp(zoom_levels), STAC_VERSION,
           EmptyDict, bounds,
           IF item_metadata = None THEN EmptyDict ELSE item_metadata[1],
           Replace(Replace(Replace(Replace(asset_template,
               "{zoom}", "{TileMatrix}"), "{row}", "{TileRow}"),
               "{col}", "{TileCol}"), "{extension}", "tif"),
           mime_type, asset_template_name)

----------------------------------------------------------------------------
(* STACTA: the computed fields *)

\* the right side is left as it comes
clamp_to_pyramid_but_right(tile_pyramid, box) ==
    LET tpb == tile_pyramid.grid.bounds
    IN [left |-> IF box.left < tpb.left THEN tpb.left ELSE box.left,
        bottom |-> IF box.bottom < tpb.bottom THEN tpb.bottom
                   ELSE box.bottom,
        right |-> box.right,
        top |-> IF box.top > tpb.top THEN tpb.top ELSE box.top]

\* lines 387-393 and 414-420: the componentwise clamp to the pyramid
clamp_to_pyramid(tile_pyramid, box) ==
    LET tpb == tile_pyramid.grid.bounds
    IN [left |-> IF box.left < tpb.left THEN tpb.left ELSE box.left,
        bottom |-> IF box.bottom < tpb.bottom THEN tpb.bottom
                   ELSE box.bottom,
        right |-> IF box.right > tpb.right THEN tpb.right ELSE box.right,
        top |-> IF box.top > tpb.top THEN tpb.top ELSE box.top]

\* the values handed to Bounds(...) at the end of _stacta_bounds
stacta_bounds_clamped(self) ==
    LET bounds == Bounds_from_inp(
            IF self.bounds # None THEN self.bounds[1]
            ELSE self.tile_pyramid.grid.bounds,
            IF self.bounds # None /\ self.bounds[1].crs # None
            THEN self.bounds[1].crs
            ELSE Some(self.tile_pyramid.grid.crs))
        tp_bbox == reproject_geometry(to_shape(bounds), bounds.crs[1],
                                      self.tile_pyramid.grid.crs)
    IN clamp_to_pyramid(self.tile_pyramid, tp_bbox)

stacta_bounds(self) ==
    LET c == stacta_bounds_clamped(self)
        b == Bounds(c.left, c.bottom, c.right, c.top,
                    Some(self.tile_pyramid.grid.crs))
    IN IF BoundsValid(b) THEN Ok(b)
       ELSE Raise("ValueError", "invalid bounds")

\* the set keeps the first zoom level only
tile_matrix_set_first_zoom(self) ==
    TileMatrixSet_from_tile_pyramid(
        self.tile_pyramid, SubSeq(ZoomLevels_iter(self.zoom_levels), 1, 1))

tile_matrix_set(self) ==
    TileMatrixSet_from_tile_pyramid(self.tile_pyramid,
                                    ZoomLevels_iter(self.zoom_levels))

\* the four lookups of one zoom of _tile_matrix_links
zoom_limits(tile_pyramid, box, zoom) ==
    LET lt == tile_from_xy(tile_pyramid, box.left, box.top, zoom, "rb")
        rb == tile_from_xy(tile_pyramid, box.right, box.bottom, zoom, "lt")
    IN IF ~lt.ok THEN lt
       ELSE IF ~rb.ok THEN rb
       ELSE Ok([min_tile_col |-> lt.value.col,
                max_tile_col |-> rb.value.col,
                min_tile_row |-> lt.value.row,
                max_tile_row |-> rb.value.row])

tile_matrix_links(self) ==
    LET sb == stacta_bounds(self)
    IN IF ~sb.ok THEN sb
       ELSE
       LET tp_bbox == reproject_geometry(to_shape(sb.value),
                                         sb.value.crs[1],
                                         self.tile_pyramid.grid.crs)
           box == clamp_to_pyramid(self.tile_pyramid, tp_bbox)
           set == tile_matrix_set(self)
           failing == {z \in self.zoom_levels :
                          ~zoom_limits(self.tile_pyramid, box, z).ok}
       IN IF ~set.ok THEN set
          ELSE IF failing # {}
          THEN zoom_limits(self.tile_pyramid, box,
                           ZoomLevels_iter(failing)[1])
          ELSE Ok([url |-> "#" \o set.value.identifier,
                   limits |->
                       [k \in {str(z) : z \in self.zoom_levels} |->
                           zoom_limits(self.tile_pyramid, box,
                                       int(k)).value]])

TILED_ASSETS_SCHEMA ==
    "https://stac-extensions.github.io/tiled-assets/"
        \o TILED_ASSETS_VERSION \o "/schema.json"
EO_SCHEMA ==
    "https://stac-extensions.github.io/eo/" \o EO_VERSION \o "/schema.json"

stac_extensions(self) ==
    IF Has(self.item_metadata, "eo:bands")
    THEN <<TILED_ASSETS_SCHEMA, EO_SCHEMA>>
    ELSE <<TILED_ASSETS_SCHEMA>>

\* the truth value of item_metadata.get("eo:bands", None), a list of bands
eo_bands_truthy(self) ==
    Has(self.item_metadata, "eo:bands") /\ self.item_metadata["eo:bands"] # <<>>

asset_templates(self) ==
    self.asset_template_name :>
        (IF eo_bands_truthy(self)
         THEN [href |-> self.asset_template, type |-> self.mime_type]
              @@ ("eo:bands" :> self.item_metadata["eo:bands"])
         ELSE [href |-> self.asset_template, type |-> self.mime_type])

\* TileMatrixSet.model_dump(exclude_none=True)
model_dump(set) ==
    LET optional == {"title", "url", "wellKnownScaleSet"}
        kept == {k \in DOMAIN set : k \notin optional \/ set[k] # None}
    IN [k \in kept |-> IF k \in optional THEN set[k][1] ELSE set[k]]

\* the end of the period comes before its start
item_datetime_end_first(caller, now) ==
    LET start == Get(caller, "start_datetime", PyNone)
        end == Get(caller, "end_datetime", PyNone)
    IN IF Truthy(end) THEN end ELSE IF Truthy(start) THEN start ELSE now

\* the clock is read whatever the caller supplies
item_datetime_of_clock(caller, now) == now

\* start_datetime or end_datetime or str(now)
item_datetime(caller, now) ==
    LET start == Get(caller, "start_datetime", PyNone)
        end == Get(caller, "end_datetime", PyNone)
    IN IF Truthy(start) THEN start ELSE IF Truthy(end) THEN end ELSE now

\* now: str(datetime.datetime.now(datetime.timezone.utc)) at the call
\* the dict assembled from the tile matrix set and the limits
properties_dict(self, now, set, links) ==
    LET caller == Get(self.item_metadata, "properties", EmptyDict)
    IN IF ~set.ok THEN set
       ELSE IF ~links.ok THEN links
       ELSE
       LET computed ==
               [datetime |-> item_datetime(caller, now),
                collection |-> self.id]
               @@ ("tiles:tile_matrix_links" :>
                      (set.value.identifier :> links.value))
               @@ ("tiles:tile_matrix_sets" :>
                      (set.value.identifier :> model_dump(set.value)))
       IN Ok(IF eo_bands_truthy(self)
             THEN ("eo:bands" :> self.item_metadata["eo:bands"])
                  @@ computed @@ caller
             ELSE computed @@ caller)

properties(self, now) ==
    properties_dict(self, now, tile_matrix_set(self), tile_matrix_links(self))

links(self) == Get(self.item_metadata, "links", <<>>)

----------------------------------------------------------------------------
(* STACTA.extend, with Bounds.union (the enclosing rectangle)              *)

Bounds_union(self, other) ==
    Bounds(Min(self.left, other.left), Min(self.bottom, other.bottom),
           Max(self.right, other.right), Max(self.top, other.top), self.crs)

\* the new zoom levels take the place of the old ones
extend_replacing_zooms(self, zoom_levels, bounds) ==
    LET zoomed ==
            IF zoom_levels # None /\ ZoomLevelsLikeTruthy(zoom_levels[1])
            THEN [self EXCEPT !.zoom_levels =
                      ZoomLevels_from_inp(zoom_levels[1])]
            ELSE self
    IN IF bounds # None
       THEN IF self.bounds = None
            THEN [zoomed EXCEPT !.bounds =
                      Some(Bounds_from_inp(bounds[1], bounds[1].crs))]
            ELSE [zoomed EXCEPT !.bounds =
                      Some(Bounds_union(self.bounds[1], bounds[1]))]
       ELSE zoomed

\* the new bounds take the place of the old ones
extend_replacing_bounds(self, zoom_levels, bounds) ==
    LET zoomed ==
            IF zoom_levels # None /\ ZoomLevelsLikeTruthy(zoom_levels[1])
            THEN [self EXCEPT !.zoom_levels =
                      ZoomLevels_union(self.zoom_levels, zoom_levels[1])]
            ELSE self
    IN IF bounds # None
       THEN [zoomed EXCEPT !.bounds =
                Some(Bounds_from_inp(bounds[1], bounds[1].crs))]
       ELSE zoomed

extend(self, zoom_levels, bounds) ==
    LET zoomed ==
            IF zoom_levels # None /\ ZoomLevelsLikeTruthy(zoom_levels[1])
            THEN [self EXCEPT !.zoom_levels =
                      ZoomLevels_union(self.zoom_levels, zoom_levels[1])]
            ELSE self
    IN IF bounds # None
       THEN IF self.bounds = None
            THEN [zoomed EXCEPT !.bounds =
                      Some(Bounds_from_inp(bounds[1], bounds[1].crs))]
            ELSE [zoomed EXCEPT !.bounds =
                      Some(Bounds_union(self.bounds[1], bounds[1]))]
       ELSE zoomed

----------------------------------------------------------------------------
(* The document: STACTA.to_item_dict, with geometry and bbox from          *)
(* Bounds.latlon_geometry (the effective bounds in EPSG:4326)              *)

MercatorToLon(x) == (x \div (MercatorHalfExtent \div 4)) * 45

MercatorToLat(y) ==
    CASE y >= MercatorHalfExtent -> 85
      [] y = 5621521 -> 45
      [] y = 0 -> 0
      [] y = -5621521 -> -45
      [] y <= -MercatorHalfExtent -> -85
      [] OTHER -> y \div (MercatorHalfExtent \div 85)

\* for bounds in EPSG:4326 or EPSG:3857
latlon_geometry(bounds) ==
    IF bounds.crs = Some("EPSG:3857")
    THEN [left |-> MercatorToLon(bounds.left),
          bottom |-> MercatorToLat(bounds.bottom),
          right |-> MercatorToLon(bounds.right),
          top |-> MercatorToLat(bounds.top)]
    ELSE to_shape(bounds)

\* mapping(...) of the box: its ring of corners
geometry(self) ==
    LET sb == stacta_bounds(self)
    IN IF ~sb.ok THEN sb
       ELSE LET g == latlon_geometry(sb.value)
            IN Ok([type |-> "Polygon",
                   coordinates |-> <<<<g.left, g.bottom>>, <<g.left, g.top>>,
                                     <<g.right, g.top>>, <<g.right, g.bottom>>,
                                     <<g.left, g.bottom>>>>])

bbox(self) ==
    LET sb == stacta_bounds(self)
    IN IF ~sb.ok THEN sb
       ELSE LET g == latlon_geometry(sb.value)
            IN Ok(<<g.left, g.bottom, g.right, g.top>>)

\* the dict of to_item_dict, its computed members at hand
item_dict_of(self, geometry_, bbox_, properties_) ==
    IF ~geometry_.ok THEN geometry_
    ELSE IF ~properties_.ok THEN properties_
    ELSE Ok([type |-> "Feature",
             stac_version |-> self.stac_version,
             stac_extensions |-> stac_extensions(self),
             id |-> self.id,
             geometry |-> geometry_.value,
             bbox |-> bbox_.value,
             properties |-> properties_.value,
             links |-> links(self),
             assets |-> self.assets,
             asset_templates |-> asset_templates(self)])

to_item_dict(self, now) ==
    item_dict_of(self, geometry(self), bbox(self), properties(self, now))

\* the __eq__ the dataclass decorator generates: the stored fields, in order
dataclass_eq(self, o) ==
    <<self.id, self.tile_pyramid, self.zoom_levels, self.stac_version,
      self.assets, self.bounds, self.item_metadata, self.asset_template,
      self.mime_type, self.asset_template_name>>
    = <<o.id, o.tile_pyramid, o.zoom_levels, o.stac_version,
        o.assets, o.bounds, o.item_metadata, o.asset_template,
        o.mime_type, o.asset_template_name>>

----------------------------------------------------------------------------
(* Paths (mapchete.path.MPath) as token sequences, "/" being a token, and  *)
(* STACTA.to_item                                                          *)

WorkingDirectory == <<"/", "home", "/", "user">>

absolute_path(path) ==
    IF path[1] = "/" THEN path ELSE WorkingDirectory \o <<"/">> \o path

\* the path without its last component
parent(path) ==
    IF Len(path) <= 2 THEN SubSeq(path, 1, 1)
    ELSE SubSeq(path, 1, Len(path) - 2)

\* basepath / href
joinpath(basepath, href) ==
    IF basepath[Len(basepath)] = "/" THEN basepath \o href
    ELSE basepath \o <<"/">> \o href

\* the item made of the dict: the basepath in front of the template hrefs
\* where one is called for
item_of_dict(item_dict, self_href, asset_basepath, relative_paths) ==
    IF ~item_dict.ok THEN item_dict
    ELSE IF ~relative_paths \/ asset_basepath # None
    THEN IF asset_basepath = None /\ self_href = None
         THEN Raise("ValueError",
                    "either asset_basepath or self_href must be set")
         ELSE
         LET basepath == IF asset_basepath # None
                         THEN absolute_path(asset_basepath[1])
                         ELSE parent(absolute_path(self_href[1]))
             templates == item_dict.value.asset_templates
         IN Ok([item |-> [item_dict.value EXCEPT !.asset_templates =
                   [name \in DOMAIN templates |->
                       [templates[name] EXCEPT !.href =
                           joinpath(basepath, templates[name].href)]]],
                self_href |-> self_href])
    ELSE Ok([item |-> item_dict.value, self_href |-> self_href])

\* no basepath is ever put in front of the template
to_item_never_prefixed(self, self_href, asset_basepath, relative_paths, now) ==
    item_of_dict(to_item_dict(self, now), self_href, None, TRUE)

to_item(self, self_href, asset_basepath, relative_paths, now) ==
    item_of_dict(to_item_dict(self, now), self_href, asset_basepath,
                 relative_paths)

----------------------------------------------------------------------------
(* STACTA.from_item.  A pystac Item is a record with id, bbox (optional),  *)
(* properties, assets and extra_fields; a JSON object whose order matters  *)
(* is a sequence of <<key, value>> pairs.                                  *)

\* TileMatrixSet.model_validate(values): the optional fields left out of a
\* dumped set come back as None
model_validate(values) ==
    LET optional == {"title", "url", "wellKnownScaleSet"}
    IN [k \in DOMAIN values \cup optional |->
           IF k \in optional
           THEN IF k \in DOMAIN values THEN Some(values[k]) ELSE None
           ELSE values[k]]

\* the tile matrix set and what is made of it, from the first entry
from_item_tile_matrix_set(item_) ==
    IF ~Has(item_.properties, "tiles:tile_matrix_sets")
    THEN Raise("AttributeError", "'list' object has no attribute 'values'")
    ELSE IF Len(item_.properties["tiles:tile_matrix_sets"]) = 0
    THEN Raise("ValueError", "no 'tiles:tile_matrix_sets' found in STAC item")
    ELSE
    LET tile_matrix_set_ ==
            model_validate(item_.properties["tiles:tile_matrix_sets"][1][2])
        tile_pyramid == to_tile_pyramid(tile_matrix_set_)
    IN IF ~tile_pyramid.ok THEN tile_pyramid
       ELSE Ok([tile_pyramid |-> tile_pyramid.value,
                zoom_levels |-> to_zoom_levels(tile_matrix_set_)])

\* the last asset template is taken, not the first
from_item_last_template(item_) ==
    LET first == from_item_tile_matrix_set(item_)
        asset_templates_ == Get(item_.extra_fields, "asset_templates", <<>>)
    IN IF ~first.ok THEN first
       ELSE IF item_.bbox = None THEN Raise("ValueError", "STAC Item has no bbox")
       ELSE IF Len(asset_templates_) = 0
       THEN Raise("ValueError", "no asset_templates found in STAC item")
       ELSE Ok(STACTA(item_.id, first.value.tile_pyramid,
                      first.value.zoom_levels, STAC_VERSION, item_.assets,
                      Some(Bounds_from_list(item_.bbox[1])),
                      item_.properties,
                      asset_templates_[Len(asset_templates_)][2].href,
                      asset_templates_[Len(asset_templates_)][2].type,
                      asset_templates_[Len(asset_templates_)][1]))

from_item(item_) ==
    LET first == from_item_tile_matrix_set(item_)
        asset_templates_ == Get(item_.extra_fields, "asset_templates", <<>>)
    IN IF ~first.ok THEN first
       ELSE IF item_.bbox = None THEN Raise("ValueError", "STAC Item has no bbox")
       ELSE IF Len(asset_templates_) = 0
       THEN Raise("ValueError", "no asset_templates found in STAC item")
       ELSE Ok(STACTA(item_.id, first.value.tile_pyramid,
                      first.value.zoom_levels, STAC_VERSION, item_.assets,
                      Some(Bounds_from_list(item_.bbox[1])),
                      item_.properties,
                      asset_templates_[1][2].href,
                      asset_templates_[1][2].type,
                      asset_templates_[1][1]))

----------------------------------------------------------------------------
(* Inputs *)

Metatilings == Range(metatiling_opts)

Subsequences(S) == {Ascending(T) : T \in SUBSET S}

\* pyramids and zoom levels given to the TileMatrixSet builder
BuilderPyramids ==
    {BufferedTilePyramid(g, m) :
        g \in {GeodeticGrid, MercatorGrid, CustomGrid, LocalGrid},
        m \in Metatilings}
BuilderZooms == {ZoomList(z) : z \in Subsequences(0..MaxZoom)}

\* TileMatrix entries of a document: those of some pyramid, or one of
\* them with a tile height no pyramid has
DocMetatilings == {1, 2, 4, 512}
DocTileMatrices ==
    LET good == {TileMatrix(BufferedTilePyramid(g, m), z) :
                    g \in {GeodeticGrid, MercatorGrid}, m \in DocMetatilings,
                    z \in 0..MaxDocZoom}
    IN good \cup {[e EXCEPT !.tileHeight = e.tileHeight + 1] :
                     e \in {TileMatrix(BufferedTilePyramid(GeodeticGrid, 1), z)
                               : z \in 0..MaxDocZoom}}
DocTileMatrixLists ==
    UNION {[1..n -> DocTileMatrices] : n \in 0..MaxDocEntries}
DocScaleSets ==
    {None, Some(WKSS_GoogleCRS84Quad), Some(WKSS_GoogleMapsCompatible),
     Some("http://www.opengis.net/def/wkss/OGC/1.0/GlobalCRS84Scale")}
Documents ==
    {[TileMatrixSet_from_tile_pyramid(
          BufferedTilePyramid(GeodeticGrid, 1), <<>>).value
      EXCEPT !.wellKnownScaleSet = w, !.tileMatrix = l] :
        w \in DocScaleSets, l \in DocTileMatrixLists}

\* pyramids of the items whose bounds are read
ItemPyramids ==
    {BufferedTilePyramid(GeodeticGrid, 1), BufferedTilePyramid(GeodeticGrid, 2),
     BufferedTilePyramid(MercatorGrid, 1), BufferedTilePyramid(CustomGrid, 2)}
ItemZooms ==
    {ZoomInt(0), ZoomRange(0, MaxItemZoom + 1),
     ZoomRange(MaxItemZoom, MaxItemZoom + 1)}

\* override bounds in the pyramid's units: outside, on the pyramid's edge,
\* on tile edges (a quarter, a half) and off every tile edge (half + 1)
XCoords(tp) ==
    LET b == tp.grid.bounds
        w == b.right - b.left
    IN {b.left - w \div 4, b.left, b.left + w \div 2,
        b.left + w \div 2 + 1, b.right, b.right + w \div 4,
        b.right + w \div 2}
YCoords(tp) ==
    LET b == tp.grid.bounds
        h == b.top - b.bottom
    IN {b.bottom - h \div 2, b.bottom - h \div 4, b.bottom,
        b.bottom + h \div 2, b.top, b.top + h \div 4}
NativeBoxes(tp) ==
    {Bounds(l, b, r, t, None) :
        l \in XCoords(tp), r \in XCoords(tp),
        b \in YCoords(tp), t \in YCoords(tp)}
\* override bounds in EPSG:4326, for a pyramid in EPSG:3857
LonLatBoxes ==
    {Bounds(l, b, r, t, Some("EPSG:4326")) :
        l \in {-180, 0, 90, 180}, r \in {-180, 0, 90, 180},
        b \in {-90, 0, 45, 90}, t \in {-90, 0, 45, 90}}
OverrideBounds(tp) ==
    {b \in NativeBoxes(tp)
           \cup (IF tp.grid.type = "mercator" THEN LonLatBoxes ELSE {}) :
        BoundsValid(b)}
\* the bounds passed to extend
ExtendBounds(tp) ==
    LET g == tp.grid.bounds
        w == g.right - g.left
        h == g.top - g.bottom
    IN {Bounds(g.left + w \div 2, g.bottom + h \div 2,
               g.left + w \div 2 + 1, g.top, None),
        Bounds(g.right, g.bottom - h \div 4,
               g.right + w \div 4 + 1, g.bottom + h \div 2, None)}
           \cup (IF tp.grid.type = "mercator"
                 THEN {Bounds(0, 0, 90, 45, Some("EPSG:4326"))} ELSE {})
ExtendZooms == {ZoomInt(0), ZoomInt(1), ZoomList(<<>>)}

\* caller-supplied metadata
CallerProperties ==
    {EmptyDict,
     [start_datetime |-> "2021-01-01 00:00:00"],
     [end_datetime |-> "2021-12-31 00:00:00"],
     [start_datetime |-> "2021-01-01 00:00:00",
      end_datetime |-> "2021-12-31 00:00:00"],
     [start_datetime |-> PyNone, end_datetime |-> "2021-12-31 00:00:00"],
     [start_datetime |-> "", end_datetime |-> PyNone],
     [datetime |-> "1999-01-01 00:00:00", collection |-> "mine",
      platform |-> "sentinel-2"],
     [start_datetime |-> "2021-01-01 00:00:00",
      datetime |-> "1999-01-01 00:00:00", platform |-> "sentinel-2"],
     ("tiles:tile_matrix_sets" :> [mine |-> "set"])
         @@ [platform |-> "sentinel-2"],
     ("tiles:tile_matrix_links" :> [mine |-> "links"])
         @@ ("eo:bands" :> <<[name |-> "B9"]>>)}
EoBands == {<<>>, <<[name |-> "B1"]>>, <<[name |-> "B1"], [name |-> "B2"]>>}
ItemMetadata ==
    {EmptyDict}
    \cup {[properties |-> p] : p \in CallerProperties}
    \cup {("eo:bands" :> e) : e \in EoBands}
    \cup {("eo:bands" :> e) @@ [properties |-> p] :
             e \in EoBands, p \in CallerProperties}
    \cup {[links |-> <<[rel |-> "self", href |-> "foo/bar.json"]>>]}
ItemIds == {"foo", "bar"}
\* the clock read by properties
Clock == {"2026-01-01 00:00:00+00:00", "2026-01-01 00:00:01+00:00"}

----------------------------------------------------------------------------
(* State: the item, the tile matrix set at hand, the last result, the     *)
(* extend calls under way in each thread, and the tiled asset at hand      *)

NoOut == [op |-> "none"]

\* the threads that share one item, none of them inside extend
Threads == {"first", "second"}
Idle == [pc |-> "idle", zoom_levels |-> None, union |-> {}]
NoCalls == [t \in Threads |-> Idle]

Init ==
    /\ item = None /\ tms = None /\ out = NoOut /\ twin = None
    /\ calls = NoCalls /\ tiled_asset = None

\* STACTA.from_tile_pyramid with default bounds and metadata
ConstructPlain ==
    /\ item = None /\ tms = None
    /\ \E tp \in BuilderPyramids, zl \in BuilderZooms :
          item' = Some(STACTA_from_tile_pyramid(
                      "foo", tp, zl, DefaultAssetTemplate, None, None,
                      DefaultMimeType, DefaultAssetTemplateName))
    /\ UNCHANGED <<tms, out, twin, calls, tiled_asset>>

\* STACTA._tile_matrix_set: TileMatrixSet.from_tile_pyramid on the item
BuildTileMatrixSet ==
    /\ item # None /\ tms = None /\ out = NoOut
    /\ LET r == tile_matrix_set(item[1])
       IN /\ tms' = IF r.ok THEN Some(r.value) ELSE None
          /\ out' = [op |-> "_tile_matrix_set", result |-> r]
    /\ UNCHANGED <<item, twin, calls, tiled_asset>>

\* TileMatrixSet.model_validate(values) of STACTA.from_item
ParseTileMatrixSet ==
    /\ item = None /\ tms = None
    /\ \E doc \in Documents : tms' = Some(doc)
    /\ UNCHANGED <<item, out, twin, calls, tiled_asset>>

\* TileMatrixSet.to_tile_pyramid
ToTilePyramid ==
    /\ tms # None /\ out.op # "to_tile_pyramid"
    /\ out' = [op |-> "to_tile_pyramid", result |-> to_tile_pyramid(tms[1])]
    /\ UNCHANGED <<item, tms, twin, calls, tiled_asset>>

\* TileMatrixSet.from_tile_pyramid on the inverted pyramid and the zoom
\* levels of the set at hand
RebuildTileMatrixSet ==
    /\ tms # None /\ out.op = "to_tile_pyramid" /\ out.result.ok
    /\ out' = [op |-> "from_tile_pyramid",
               tile_pyramid |-> out.result.value,
               result |-> TileMatrixSet_from_tile_pyramid(
                              out.result.value,
                              ZoomLevels_iter(to_zoom_levels(tms[1])))]
    /\ UNCHANGED <<item, tms, twin, calls, tiled_asset>>

NextTMS ==
    \/ ConstructPlain
    \/ BuildTileMatrixSet
    \/ ParseTileMatrixSet
    \/ ToTilePyramid
    \/ RebuildTileMatrixSet

SpecTMS == Init /\ [][NextTMS]_vars

\* STACTA.from_tile_pyramid with override bounds
ConstructWithBounds ==
    /\ item = None
    /\ \E tp \in ItemPyramids, zl \in ItemZooms :
          \E b \in {None} \cup {Some(x) : x \in OverrideBounds(tp)} :
             item' = Some(STACTA_from_tile_pyramid(
                         "foo", tp, zl, DefaultAssetTemplate, b, None,
                         DefaultMimeType, DefaultAssetTemplateName))
    /\ UNCHANGED <<tms, out, twin, calls, tiled_asset>>

\* STACTA.extend; override bounds of one item share their CRS
Extend ==
    /\ item # None
    /\ \E zl \in {None} \cup {Some(z) : z \in ExtendZooms},
          b \in {None} \cup {Some(x) : x \in ExtendBounds(item[1].tile_pyramid)} :
          /\ b # None /\ item[1].bounds # None
                => b[1].crs = item[1].bounds[1].crs
          /\ item' = Some(extend(item[1], zl, b))
    /\ out' = NoOut
    /\ UNCHANGED <<tms, twin, calls, tiled_asset>>

\* STACTA._stacta_bounds
ReadStactaBounds ==
    /\ item # None
    /\ out' = [op |-> "_stacta_bounds",
               result |-> stacta_bounds(item[1]),
               clamped |-> stacta_bounds_clamped(item[1])]
    /\ UNCHANGED <<item, tms, twin, calls, tiled_asset>>

\* STACTA._tile_matrix_links
ReadTileMatrixLinks ==
    /\ item # None
    /\ out' = [op |-> "_tile_matrix_links",
               result |-> tile_matrix_links(item[1])]
    /\ UNCHANGED <<item, tms, twin, calls, tiled_asset>>

NextItem ==
    \/ ConstructWithBounds
    \/ Extend
    \/ ReadStactaBounds
    \/ ReadTileMatrixLinks

SpecItem == Init /\ [][NextItem]_vars

\* STACTA.from_tile_pyramid with caller metadata
ConstructWithMetadata ==
    /\ item = None
    /\ \E id \in ItemIds, md \in ItemMetadata,
          tp \in {BufferedTilePyramid(GeodeticGrid, 1),
                  BufferedTilePyramid(CustomGrid, 2),
                  BufferedTilePyramid(LocalGrid, 1)} :
          item' = Some(STACTA_from_tile_pyramid(
                      id, tp, ZoomRange(0, 2), DefaultAssetTemplate, None,
                      Some(md), DefaultMimeType, DefaultAssetTemplateName))
    /\ UNCHANGED <<tms, out, twin, calls, tiled_asset>>

\* STACTA.stac_extensions
ReadStacExtensions ==
    /\ item # None
    /\ out' = [op |-> "stac_extensions", result |-> stac_extensions(item[1])]
    /\ UNCHANGED <<item, tms, twin, calls, tiled_asset>>

\* STACTA.asset_templates
ReadAssetTemplates ==
    /\ item # None
    /\ out' = [op |-> "asset_templates", result |-> asset_templates(item[1])]
    /\ UNCHANGED <<item, tms, twin, calls, tiled_asset>>

\* STACTA.properties
ReadProperties ==
    /\ item # None
    /\ \E now \in Clock :
          out' = [op |-> "properties", result |-> properties(item[1], now)]
    /\ UNCHANGED <<item, tms, twin, calls, tiled_asset>>

\* STACTA.geometry
ReadGeometry ==
    /\ item # None
    /\ out' = [op |-> "geometry", result |-> geometry(item[1])]
    /\ UNCHANGED <<item, tms, twin, calls, tiled_asset>>

\* STACTA.bbox
ReadBbox ==
    /\ item # None
    /\ out' = [op |-> "bbox", result |-> bbox(item[1])]
    /\ UNCHANGED <<item, tms, twin, calls, tiled_asset>>

\* STACTA.links
ReadLinks ==
    /\ item # None
    /\ out' = [op |-> "links", result |-> links(item[1])]
    /\ UNCHANGED <<item, tms, twin, calls, tiled_asset>>

\* STACTA.to_item_dict
ReadItemDict ==
    /\ item # None
    /\ \E now \in Clock :
          out' = [op |-> "to_item_dict", result |-> to_item_dict(item[1], now)]
    /\ UNCHANGED <<item, tms, twin, calls, tiled_asset>>

NextMeta ==
    \/ ConstructWithMetadata
    \/ ReadStacExtensions
    \/ ReadAssetTemplates
    \/ ReadProperties
    \/ ReadGeometry
    \/ ReadBbox
    \/ ReadLinks
    \/ ReadItemDict

SpecMeta == Init /\ [][NextMeta]_vars

\* two items and the extend calls on the first: the arguments
MaxExtendZoom == 7
PairPyramids ==
    {BufferedTilePyramid(GeodeticGrid, 1), BufferedTilePyramid(GeodeticGrid, 2)}
PairZooms == {ZoomInt(1), ZoomRange(0, MaxExtendZoom - 1)}
PairBounds(tp) ==
    LET g == tp.grid.bounds
    IN {None,
        Some(Bounds(g.left, g.bottom, g.right, g.top, None)),
        Some(Bounds(90, 0, 270, 45, None))}
PairMetadata ==
    {None, Some([properties |-> [start_datetime |-> "2021-01-01 00:00:00"]])}
PairExtendZooms ==
    {None, Some(ZoomInt(0)), Some(ZoomInt(2)), Some(ZoomList(<<>>)),
     Some(ZoomList(<<MaxExtendZoom - 1, MaxExtendZoom>>)),
     Some(ZoomRange(1, 3))}
PairExtendBounds ==
    {None, Some(Bounds(-90, -45, 0, 0, None)),
     Some(Bounds(0, 0, 135, 90, None))}

\* STACTA.from_tile_pyramid, twice: the second item with the same
\* arguments but for its bounds, which may differ
ConstructPair ==
    /\ item = None /\ twin = None
    /\ \E tp \in PairPyramids, zl \in PairZooms, md \in PairMetadata :
          \E b1 \in PairBounds(tp), b2 \in PairBounds(tp) :
             /\ item' = Some(STACTA_from_tile_pyramid(
                            "foo", tp, zl, DefaultAssetTemplate, b1, md,
                            DefaultMimeType, DefaultAssetTemplateName))
             /\ twin' = Some(STACTA_from_tile_pyramid(
                            "foo", tp, zl, DefaultAssetTemplate, b2, md,
                            DefaultMimeType, DefaultAssetTemplateName))
    /\ UNCHANGED <<tms, out, calls, tiled_asset>>

\* STACTA.extend on the first item; the call is kept with the item it
\* was made on
ExtendItem ==
    /\ item # None /\ twin # None
    /\ \E zl \in PairExtendZooms, b \in PairExtendBounds :
          /\ item' = Some(extend(item[1], zl, b))
          /\ out' = [op |-> "extend", before |-> item[1],
                     zoom_levels |-> zl, bounds |-> b]
    /\ UNCHANGED <<tms, twin, calls, tiled_asset>>

\* item == twin
CompareItems ==
    /\ item # None /\ twin # None
    /\ out' = [op |-> "__eq__", result |-> dataclass_eq(item[1], twin[1])]
    /\ UNCHANGED <<item, tms, twin, calls, tiled_asset>>

NextExtend ==
    \/ ConstructPair
    \/ ExtendItem
    \/ CompareItems

SpecExtend == Init /\ [][NextExtend]_vars

\* STAC documents read by from_item, and the arguments of to_item
MaxReadZoom == 1
TemplatePyramid == BufferedTilePyramid(GeodeticGrid, 1)
AssetTemplates ==
    {DefaultAssetTemplate,
     <<"{TileMatrix}", "/", "{TileRow}", "/", "{TileCol}", ".tif">>,
     <<"tiles", "/", "{zoom}", "/", "{row}", "/", "{col}", ".",
       "{extension}">>,
     <<"{TileMatrix}", "/", "{TileRow}", "/", "{TileCol}", ".",
       "{extension}">>}
ReadTileMatrixSet(tp, zooms) ==
    LET set == TileMatrixSet_from_tile_pyramid(tp, zooms).value
    IN <<set.identifier, model_dump(set)>>
ReadWorldCRS84Quad ==
    ReadTileMatrixSet(BufferedTilePyramid(GeodeticGrid, 1),
                      Ascending(0..MaxReadZoom))
ReadWorldCRS84QuadMeta ==
    <<"custom",
      ReadTileMatrixSet(BufferedTilePyramid(GeodeticGrid, 2),
                        Ascending(1..MaxReadZoom + 1))[2]>>
ReadWebMercatorQuad ==
    ReadTileMatrixSet(BufferedTilePyramid(MercatorGrid, 1), <<0>>)
\* the value of tiles:tile_matrix_sets; None: the key is absent
ReadTileMatrixSets ==
    {None, Some(<<>>), Some(<<ReadWorldCRS84Quad>>),
     Some(<<ReadWorldCRS84Quad, ReadWebMercatorQuad>>),
     Some(<<ReadWebMercatorQuad, ReadWorldCRS84Quad>>),
     Some(<<ReadWorldCRS84QuadMeta, ReadWorldCRS84Quad>>)}
ReadBands ==
    <<"bands", [href |-> <<"{TileMatrix}", "/", "{TileRow}", "/",
                           "{TileCol}", ".tif">>,
                type |-> DefaultMimeType]>>
ReadMask ==
    <<"mask", [href |-> <<"mask", "/", "{TileMatrix}", "/", "{TileRow}",
                          "/", "{TileCol}", ".png">>,
               type |-> "image/png"]>>
\* the value of asset_templates; None: the key is absent
ReadTemplateMaps ==
    {None, Some(<<>>), Some(<<ReadBands>>), Some(<<ReadBands, ReadMask>>),
     Some(<<ReadMask, ReadBands>>)}
ReadBboxes == {None, Some(<<-180, -90, 180, 90>>), Some(<<0, 0, 90, 45>>)}
ReadItem(sets, bbox_, templates) ==
    [id |-> "foo",
     bbox |-> bbox_,
     properties |->
         IF sets = None THEN [datetime |-> "2021-01-01 00:00:00"]
         ELSE [datetime |-> "2021-01-01 00:00:00"]
              @@ ("tiles:tile_matrix_sets" :> sets[1]),
     assets |-> EmptyDict,
     extra_fields |->
         IF templates = None THEN [stac_extensions |-> <<>>]
         ELSE [stac_extensions |-> <<>>]
              @@ ("asset_templates" :> templates[1])]
ReadItems ==
    {ReadItem(sets, bbox_, templates) :
        sets \in ReadTileMatrixSets, bbox_ \in ReadBboxes,
        templates \in ReadTemplateMaps}
SelfHrefs ==
    {None, Some(<<"foo", "/", "bar.json">>),
     Some(<<"/", "data", "/", "bar.json">>)}
AssetBasepaths ==
    {None, Some(<<"tiles">>), Some(<<"/", "data", "/", "tiles">>)}

\* STACTA.from_tile_pyramid with an asset template; the call is kept
ConstructWithTemplate ==
    /\ item = None /\ tms = None /\ twin = None /\ out = NoOut
    /\ \E t \in AssetTemplates :
          /\ item' = Some(STACTA_from_tile_pyramid(
                         "foo", TemplatePyramid, ZoomRange(0, MaxReadZoom + 1),
                         t, None, None, DefaultMimeType,
                         DefaultAssetTemplateName))
          /\ out' = [op |-> "from_tile_pyramid", asset_template |-> t]
    /\ UNCHANGED <<tms, twin, calls, tiled_asset>>

\* STACTA.from_item on a document
FromItem ==
    /\ item = None /\ tms = None /\ twin = None /\ out = NoOut
    /\ \E doc \in ReadItems :
          LET r == from_item(doc)
          IN /\ item' = IF r.ok THEN Some(r.value) ELSE None
             /\ out' = [op |-> "from_item", item |-> doc, result |-> r]
    /\ UNCHANGED <<tms, twin, calls, tiled_asset>>

\* STACTA.to_item; the item is left as it is
ToItem ==
    /\ item # None /\ tms = None /\ twin = None
    /\ \E self_href \in SelfHrefs, asset_basepath \in AssetBasepaths,
          relative_paths \in BOOLEAN, now \in Clock :
          out' = [op |-> "to_item", self_href |-> self_href,
                  asset_basepath |-> asset_basepath,
                  relative_paths |-> relative_paths,
                  result |-> to_item(item[1], self_href, asset_basepath,
                                     relative_paths, now)]
    /\ UNCHANGED <<item, tms, twin, calls, tiled_asset>>

NextDoc ==
    \/ ConstructWithTemplate
    \/ FromItem
    \/ ToItem

SpecDoc == Init /\ [][NextDoc]_vars

\* the bounds handed to BoundingBox.from_bounds: left <= right and
\* bottom <= top, with and without a CRS
BoxXCoords == {-180, 0, 180}
BoxYCoords == {-90, 0, 90}
BoxCRSs == {None, Some("EPSG:4326"), Some("EPSG:3857")}
BoxBounds ==
    {b \in [left : BoxXCoords, bottom : BoxYCoords, right : BoxXCoords,
            top : BoxYCoords, crs : BoxCRSs] : BoundsValid(b)}

\* BoundingBox.from_bounds
FromBounds ==
    /\ item = None /\ tms = None /\ twin = None
    /\ \E b \in BoxBounds :
          out' = [op |-> "from_bounds", bounds |-> b,
                  result |-> BoundingBox_from_bounds(b)]
    /\ UNCHANGED <<item, tms, twin, calls, tiled_asset>>

NextBox == FromBounds

SpecBox == Init /\ [][NextBox]_vars

----------------------------------------------------------------------------
(* Writing an item and reading it back: to_item, then from_item on the     *)
(* pystac Item made of the written dict                                    *)

\* dict.items(): the <<key, value>> pairs of a dict
RECURSIVE dict_items(_)
dict_items(d) ==
    IF DOMAIN d = {} THEN <<>>
    ELSE LET k == CHOOSE key \in DOMAIN d : TRUE
         IN <<<<k, d[k]>>>>
            \o dict_items([key \in DOMAIN d \ {k} |-> d[key]])

\* pystac.Item.from_dict: id, bbox, properties and assets are taken as
\* they are, the members pystac does not know go to extra_fields
Item_from_dict(d) ==
    [id |-> d.id,
     bbox |-> Some(d.bbox),
     properties |->
         [k \in DOMAIN d.properties |->
             IF k = "tiles:tile_matrix_sets"
             THEN dict_items(d.properties[k]) ELSE d.properties[k]],
     assets |-> d.assets,
     extra_fields |->
         [stac_extensions |-> d.stac_extensions]
         @@ ("asset_templates" :> dict_items(d.asset_templates))]

RoundPyramids ==
    {BufferedTilePyramid(GeodeticGrid, 1), BufferedTilePyramid(GeodeticGrid, 2),
     BufferedTilePyramid(MercatorGrid, 1)}
RoundZooms == {ZoomInt(0), ZoomRange(0, MaxReadZoom + 1), ZoomList(<<1>>)}
\* no override bounds, a quarter of the pyramid, a box reaching beyond it
RoundBounds(tp) ==
    LET g == tp.grid.bounds
        w == g.right - g.left
        h == g.top - g.bottom
    IN {None,
        Some(Bounds(g.left + w \div 2, g.bottom + h \div 2, g.right, g.top,
                    None)),
        Some(Bounds(g.left + w \div 4, g.bottom, g.right + w \div 4,
                    g.bottom + h \div 2, None))}
RoundMetadata ==
    {None,
     Some([properties |-> [start_datetime |-> "2021-01-01 00:00:00"]]),
     Some([properties |-> [end_datetime |-> "2021-12-31 00:00:00",
                           platform |-> "sentinel-2"],
           links |-> <<[rel |-> "parent", href |-> "catalog.json"]>>])}

\* STACTA.from_tile_pyramid for an item that is to be written
ConstructForWriting ==
    /\ item = None /\ tms = None /\ twin = None /\ out = NoOut
    /\ \E tp \in RoundPyramids, zl \in RoundZooms, md \in RoundMetadata :
          \E b \in RoundBounds(tp) :
             item' = Some(STACTA_from_tile_pyramid(
                         "foo", tp, zl, DefaultAssetTemplate, b, md,
                         DefaultMimeType, DefaultAssetTemplateName))
    /\ UNCHANGED <<tms, out, twin, calls, tiled_asset>>

\* x.to_item(self_href)
WriteItem ==
    /\ item # None /\ tms = None /\ twin = None /\ out = NoOut
    /\ \E self_href \in SelfHrefs \ {None}, now \in Clock :
          out' = [op |-> "to_item", self_href |-> self_href, now |-> now,
                  result |-> to_item(item[1], self_href, None, TRUE, now)]
    /\ UNCHANGED <<item, tms, twin, calls, tiled_asset>>

\* STACTA.from_item on the written item
ReadBack ==
    /\ item # None /\ twin = None /\ out.op = "to_item" /\ out.result.ok
    /\ LET r == from_item(Item_from_dict(out.result.value.item))
       IN /\ twin' = IF r.ok THEN Some(r.value) ELSE None
          /\ out' = [op |-> "from_item", now |-> out.now,
                     written |-> out.result.value.item, result |-> r]
    /\ UNCHANGED <<item, tms, calls, tiled_asset>>

\* writing the item read back, at the same reading of the clock
WriteAgain ==
    /\ twin # None /\ out.op = "from_item"
    /\ out' = [op |-> "to_item_again", now |-> out.now,
               written |-> out.written,
               result |-> to_item_dict(twin[1], out.now)]
    /\ UNCHANGED <<item, tms, twin, calls, tiled_asset>>

NextRound ==
    \/ ConstructForWriting
    \/ WriteItem
    \/ ReadBack
    \/ WriteAgain

SpecRound == Init /\ [][NextRound]_vars

----------------------------------------------------------------------------
(* STACTA.extend(zoom_levels=...) called from two threads on one item.     *)
(* The statement self.zoom_levels = self.zoom_levels.union(zoom_levels)    *)
(* loads the attribute and computes the union, and stores it later; the    *)
(* interpreter may switch threads in between.                              *)

SharedZooms == {ZoomInt(1), ZoomRange(0, 2), ZoomList(<<2>>)}
ThreadZooms == {ZoomInt(0), ZoomInt(3), ZoomList(<<1, 4>>), ZoomList(<<>>)}

\* STACTA.from_tile_pyramid for the item the threads share
ConstructShared ==
    /\ item = None /\ tms = None /\ twin = None /\ out = NoOut
    /\ \E zl \in SharedZooms :
          /\ item' = Some(STACTA_from_tile_pyramid(
                         "foo", BufferedTilePyramid(GeodeticGrid, 1), zl,
                         DefaultAssetTemplate, None, None,
                         DefaultMimeType, DefaultAssetTemplateName))
          /\ out' = [op |-> "extend",
                     initial |-> ZoomLevels_from_inp(zl),
                     interleaved |-> FALSE]
    /\ UNCHANGED <<tms, twin, calls, tiled_asset>>

\* a thread calls extend(zoom_levels=zl); the calls interleave when the
\* other thread has not returned from its call
CallExtend(t) ==
    /\ item # None /\ out.op = "extend" /\ calls[t].pc = "idle"
    /\ \E zl \in ThreadZooms :
          calls' = [calls EXCEPT ![t] =
                       [pc |-> "called", zoom_levels |-> Some(zl),
                        union |-> {}]]
    /\ out' = [out EXCEPT !.interleaved =
                  @ \/ \E u \in Threads \ {t} :
                          calls[u].pc \in {"called", "loaded"}]
    /\ UNCHANGED <<item, tms, twin, tiled_asset>>

\* if zoom_levels: and the right-hand side self.zoom_levels.union(...)
LoadZoomLevels(t) ==
    /\ item # None /\ calls[t].pc = "called"
    /\ LET zoom_levels == calls[t].zoom_levels[1]
       IN calls' = [calls EXCEPT ![t] =
                       IF ZoomLevelsLikeTruthy(zoom_levels)
                       THEN [pc |-> "loaded",
                             zoom_levels |-> Some(zoom_levels),
                             union |-> ZoomLevels_union(item[1].zoom_levels,
                                                        zoom_levels)]
                       ELSE [@ EXCEPT !.pc = "returned"]]
    /\ UNCHANGED <<item, tms, out, twin, tiled_asset>>

\* the assignment to self.zoom_levels, and the return (bounds is None)
StoreZoomLevels(t) ==
    /\ item # None /\ calls[t].pc = "loaded"
    /\ item' = Some([item[1] EXCEPT !.zoom_levels = calls[t].union])
    /\ calls' = [calls EXCEPT ![t].pc = "returned"]
    /\ UNCHANGED <<tms, out, twin, tiled_asset>>

NextThreads ==
    \/ ConstructShared
    \/ \E t \in Threads : CallExtend(t)
    \/ \E t \in Threads : LoadZoomLevels(t)
    \/ \E t \in Threads : StoreZoomLevels(t)

SpecThreads == Init /\ [][NextThreads]_vars

----------------------------------------------------------------------------
(* TiledAsset and TiledAsset.to_asset *)

TiledAsset(name, set, link, asset_kwargs) ==
    [name |-> name,
     tile_matrix_set |-> set,
     tile_matrix_link |-> link,
     asset_kwargs |-> asset_kwargs]

\* dict.pop(key) on a dict known to hold the key: the dict that is left
Popped(dict, key) == [k \in DOMAIN dict \ {key} |-> dict[k]]

\* pystac.Asset(href, **kwargs); the constructor has these keywords only
AssetKeywords ==
    {"title", "description", "media_type", "roles", "extra_fields"}
Asset(href, kwargs) ==
    IF DOMAIN kwargs \subseteq AssetKeywords
    THEN Ok([href |-> href] @@ kwargs)
    ELSE Raise("TypeError", "__init__() got an unexpected keyword argument")

\* asset_name or self.name
asset_name_or(asset_name, name) ==
    IF asset_name # None /\ asset_name[1] # "" THEN asset_name[1] ELSE name

\* the href of the asset, piece by piece
asset_href(self, item_href, asset_name) ==
    <<"STACTA:", item_href, ":", asset_name_or(asset_name, self.name), ":",
      self.tile_matrix_set.identifier>>

\* TiledAsset.to_asset: the result and the object after the call;
\* asset_kwargs is the dict of the object itself, not a copy
to_asset(self, item_href, asset_name) ==
    IF ~Has(self.asset_kwargs, "type")
    THEN [result |-> Raise("KeyError", "type"), self |-> self]
    ELSE
    LET typed == Popped(self.asset_kwargs, "type")
                 @@ ("media_type" :> self.asset_kwargs["type"])
    IN IF ~Has(typed, "href")
       THEN [result |-> Raise("KeyError", "href"),
             self |-> [self EXCEPT !.asset_kwargs = typed]]
       ELSE
       LET asset_kwargs == Popped(typed, "href")
       IN [result |-> Asset(asset_href(self, item_href, asset_name),
                            asset_kwargs),
           self |-> [self EXCEPT !.asset_kwargs = asset_kwargs]]

AssetPyramids ==
    {BufferedTilePyramid(GeodeticGrid, 1), BufferedTilePyramid(MercatorGrid, 1)}
AssetNames == {"bands", "mask"}
AssetKwargs ==
    {[type |-> DefaultMimeType, href |-> DefaultAssetTemplate],
     [type |-> DefaultMimeType, href |-> DefaultAssetTemplate,
      title |-> "reflectance"],
     [type |-> DefaultMimeType, href |-> DefaultAssetTemplate,
      bands |-> "B04"],
     [href |-> DefaultAssetTemplate],
     [type |-> DefaultMimeType],
     EmptyDict}
ItemHrefs == {"item.json", "s3://bucket/foo/foo.json"}
AssetNameArgs == {None, Some(""), Some("mask"), Some("preview")}

\* TiledAsset(name=..., tile_matrix_set=..., tile_matrix_link=...,
\* asset_kwargs=...) with the set and the link of an item at zoom 0
ConstructTiledAsset ==
    /\ item = None /\ tms = None /\ twin = None /\ out = NoOut
    /\ tiled_asset = None
    /\ \E tp \in AssetPyramids, name \in AssetNames, kw \in AssetKwargs :
          LET x == STACTA_from_tile_pyramid(
                       "foo", tp, ZoomInt(0), DefaultAssetTemplate, None,
                       None, DefaultMimeType, DefaultAssetTemplateName)
          IN tiled_asset' = Some(TiledAsset(name, tile_matrix_set(x).value,
                                            tile_matrix_links(x).value, kw))
    /\ UNCHANGED <<item, tms, out, twin, calls>>

\* tiled_asset.to_asset(item_href, asset_name)
ToAsset ==
    /\ tiled_asset # None /\ out = NoOut
    /\ \E item_href \in ItemHrefs, asset_name \in AssetNameArgs :
          LET r == to_asset(tiled_asset[1], item_href, asset_name)
          IN /\ out' = [op |-> "to_asset", item_href |-> item_href,
                        asset_name |-> asset_name,
                        before |-> tiled_asset[1], result |-> r.result]
             /\ tiled_asset' = Some(r.self)
    /\ UNCHANGED <<item, tms, twin, calls>>

\* the same call once more on the same object
ToAssetAgain ==
    /\ tiled_asset # None /\ out.op = "to_asset"
    /\ LET r == to_asset(tiled_asset[1], out.item_href, out.asset_name)
       IN /\ out' = [op |-> "to_asset_again", item_href |-> out.item_href,
                     asset_name |-> out.asset_name,
                     before |-> out.before, first |-> out.result,
                     result |-> r.result]
          /\ tiled_asset' = Some(r.self)
    /\ UNCHANGED <<item, tms, twin, calls>>

NextAsset ==
    \/ ConstructTiledAsset
    \/ ToAsset
    \/ ToAssetAgain

SpecAsset == Init /\ [][NextAsset]_vars

----------------------------------------------------------------------------
(* mapchete.errors.clean_exception.  Exceptions are objects on a heap, a   *)
(* sequence of records indexed by identity; __cause__ and __context__ are  *)
(* the fields cause and context, None or the identity of another object.   *)
(* A message is a sequence of tokens.                                      *)

\* _is_frozen_exc: the type rejects setattr (AttributeError or TypeError)
is_frozen_exc(e) == e.type \in {"FrozenError", "StrRaisesError"}
\* str(exc) raises
str_raises(e) == e.type = "StrRaisesError"

NewException(type, msg) ==
    [type |-> type, msg |-> msg, cause |-> None, context |-> None]

\* setattr(safe_exc, attr, cleaned), or the failure of the recursive call
set_chained(cleaned, safe_exc, attr) ==
    IF cleaned.raised # None
    THEN [failed |-> TRUE, heap |-> cleaned.heap, safe_exc |-> safe_exc]
    ELSE [failed |-> FALSE,
          heap |-> [cleaned.heap EXCEPT ![safe_exc][attr] = cleaned.value],
          safe_exc |-> safe_exc]

\* return safe_exc, or the fallback Exception(str(exc)) of the except clause
return_or_fallback(tried, exc) ==
    IF ~tried.failed
    THEN [raised |-> None, value |-> Some(tried.safe_exc), heap |-> tried.heap]
    ELSE IF str_raises(tried.heap[exc])
    THEN [raised |-> Some([type |-> "RuntimeError", msg |-> <<"str() failed">>]),
          value |-> None, heap |-> tried.heap]
    ELSE [raised |-> None, value |-> Some(Len(tried.heap) + 1),
          heap |-> Append(tried.heap,
                          NewException("Exception", tried.heap[exc].msg))]

RECURSIVE clean_exception(_, _)

\* one round of the loop over __cause__ and __context__
clean_chained(tried, exc, attr) ==
    IF tried.failed \/ tried.heap[exc][attr] = None THEN tried
    ELSE set_chained(clean_exception(tried.heap, tried.heap[exc][attr]),
                     tried.safe_exc, attr)

\* the body of the try block
try_clean(heap, exc) ==
    IF ~is_frozen_exc(heap[exc])
    THEN clean_chained(
             clean_chained([failed |-> FALSE, heap |-> heap, safe_exc |-> exc],
                           exc, "cause"),
             exc, "context")
    ELSE IF str_raises(heap[exc])
    THEN [failed |-> TRUE, heap |-> heap, safe_exc |-> exc]
    ELSE clean_chained(
             clean_chained(
                 [failed |-> FALSE,
                  heap |-> Append(heap,
                              NewException("RuntimeError",
                                  <<heap[exc].type, ": ">> \o heap[exc].msg)),
                  safe_exc |-> Len(heap) + 1],
                 exc, "cause"),
             exc, "context")

clean_exception(heap, exc) ==
    IF exc = None THEN [raised |-> None, value |-> None, heap |-> heap]
    ELSE return_or_fallback(try_clean(heap, exc[1]), exc[1])

\* the exception chains handed to clean_exception: up to MaxChain objects,
\* each chained to later ones only
MaxChain == 3
ExceptionTypes == {"NormalError", "FrozenError", "StrRaisesError"}
ExceptionMessages == <<"outer", "cause", "root cause", "detail">>
ChainedTo(i) == {None} \cup {Some(j) : j \in (i + 1)..MaxChain}
ExceptionObjects(i) ==
    {[type |-> t, msg |-> <<ExceptionMessages[i]>>, cause |-> c,
      context |-> x] :
        t \in ExceptionTypes, c \in ChainedTo(i), x \in ChainedTo(i)}
RECURSIVE HeapsOfLen(_)
HeapsOfLen(n) ==
    IF n = 0 THEN {<<>>}
    ELSE {Append(h, e) : h \in HeapsOfLen(n - 1), e \in ExceptionObjects(n)}
ExceptionHeaps == HeapsOfLen(MaxChain)

\* clean_exception(exc), exc being None or the first object of a heap
CleanException ==
    /\ item = None /\ tms = None /\ twin = None /\ out = NoOut
    /\ \E heap \in ExceptionHeaps, exc \in {None, Some(1)} :
          out' = [op |-> "clean_exception", heap |-> heap, exc |-> exc,
                  result |-> clean_exception(heap, exc)]
    /\ UNCHANGED <<item, tms, twin, calls, tiled_asset>>

NextErrors == CleanException

SpecErrors == Init /\ [][NextErrors]_vars

Next == NextTMS \/ NextItem \/ NextMeta \/ NextExtend \/ NextDoc \/ NextBox \/ NextErrors \/ NextRound \/ NextThreads \/ NextAsset

Spec == Init /\ [][Next]_vars

----------------------------------------------------------------------------
(* Claims on the TileMatrixSet builder and inverter (SpecTMS) *)

\* the item's pyramid went through from_tile_pyramid and to_tile_pyramid
RoundTripDone ==
    /\ item # None /\ tms # None
    /\ out.op = "to_tile_pyramid"

MaxOf(S) == CHOOSE x \in S : \A y \in S : y <= x

TestMetatilings == {1, 2, 4, 8, 16, 64}

\* C1 as claimed: for every geodetic pyramid with metatiling in
\* {1, 2, 4, 8, 16, 64} and every set of zoom levels, the round trip
\* from_tile_pyramid / to_tile_pyramid returns the same grid type and the
\* same metatiling.
C1_RoundTripAnyZooms ==
    (RoundTripDone /\ item[1].tile_pyramid.grid.type = "geodetic"
     /\ item[1].tile_pyramid.metatiling \in TestMetatilings)
    => /\ out.result.ok
       /\ out.result.value.grid.type = "geodetic"
       /\ out.result.value.metatiling = item[1].tile_pyramid.metatiling

\* C1 amended: the round trip of a geodetic pyramid with metatiling m in
\* {1, 2, 4, 8, 16, 64} returns the geodetic grid and the metatiling
\* min(m, 2^(max Z + 1)) (1 for an empty Z): the same metatiling exactly
\* when m = 1 or Z holds a zoom z with 2^(z + 1) >= m, as Z = 0..5 does.
C1_RoundTrip ==
    (RoundTripDone /\ item[1].tile_pyramid.grid.type = "geodetic"
     /\ item[1].tile_pyramid.metatiling \in TestMetatilings)
    => LET m == item[1].tile_pyramid.metatiling
           Z == item[1].zoom_levels
           same == m = 1 \/ \E z \in Z : Pow2(z + 1) >= m
       IN /\ out.result.ok
          /\ out.result.value.grid.type = "geodetic"
          /\ out.result.value.metatiling =
                 (IF Z = {} THEN 1 ELSE Min(m, Pow2(MaxOf(Z) + 1)))
          /\ (out.result.value.metatiling = m) <=> same
          /\ Z = 0..5 => out.result.value.metatiling = m

\* C1 witness: metatiling 64 over the zooms 0..5 comes back as 64, out of
\* several matching candidates
C1_Witness ==
    /\ RoundTripDone
    /\ item[1].tile_pyramid.grid.type = "geodetic"
    /\ item[1].tile_pyramid.metatiling = 64
    /\ item[1].zoom_levels = 0..5
    /\ out.result.ok
    /\ out.result.value.metatiling = 64
    /\ out.result.warnings # <<>>

\* the candidates of to_tile_pyramid that match every entry of a set
CandidatesMatching(set, gridname) ==
    {m \in {Pow2(x) : x \in 0..9} :
        \A i \in 1..Len(set.tileMatrix) :
           LET e == set.tileMatrix[i]
               trial == BufferedTilePyramid(GridDefinition(gridname), m)
               z == int(e.identifier)
           IN <<e.matrixWidth, e.matrixHeight, e.tileWidth, e.tileHeight>>
              = <<matrix_width(trial, z), matrix_height(trial, z),
                  tile_width(trial, z), tile_height(trial, z)>>}

InvertedKnownScaleSet ==
    /\ tms # None
    /\ out.op = "to_tile_pyramid"
    /\ tms[1].wellKnownScaleSet
           \in {Some(WKSS_GoogleCRS84Quad), Some(WKSS_GoogleMapsCompatible)}

\* C2: to_tile_pyramid tries exactly the candidates 1, 2, 4, ..., 512; a
\* candidate matches iff every TileMatrix entry equals the trial pyramid's
\* matrix and tile sizes at the entry's zoom; no match fails with 'cannot
\* determine metatiling setting', one match is returned, of several the
\* smallest is returned with a warning; an empty tileMatrix list matches
\* all ten candidates and yields metatiling 1.
C2_MetatilingInference ==
    InvertedKnownScaleSet
    => LET gridname ==
               IF tms[1].wellKnownScaleSet = Some(WKSS_GoogleCRS84Quad)
               THEN "geodetic" ELSE "mercator"
           M == CandidatesMatching(tms[1], gridname)
       IN /\ Range(metatiling_opts) = {1, 2, 4, 8, 16, 32, 64, 128, 256, 512}
          /\ M = {} =>
                /\ ~out.result.ok
                /\ out.result.error.msg = "cannot determine metatiling setting"
          /\ Cardinality(M) = 1 =>
                /\ out.result.ok
                /\ out.result.value.metatiling \in M
                /\ out.result.warnings = <<>>
          /\ Cardinality(M) > 1 =>
                /\ out.result.ok
                /\ out.result.value.metatiling \in M
                /\ \A m \in M : out.result.value.metatiling <= m
                /\ out.result.warnings # <<>>
          /\ tms[1].tileMatrix = <<>> =>
                /\ Cardinality(M) = 10
                /\ out.result.ok
                /\ out.result.value.metatiling = 1

\* C2 witness: a parsed document whose two entries match several
\* candidates, none of them 1; the smallest is returned with a warning
C2_Witness ==
    /\ InvertedKnownScaleSet
    /\ item = None
    /\ Len(tms[1].tileMatrix) = 2
    /\ Cardinality(CandidatesMatching(tms[1], "geodetic")) > 1
    /\ 1 \notin CandidatesMatching(tms[1], "geodetic")
    /\ out.result.ok
    /\ out.result.value.metatiling = 2
    /\ out.result.warnings # <<>>

\* C3: to_tile_pyramid maps the GoogleCRS84Quad scale set to the geodetic
\* grid and the GoogleMapsCompatible scale set to the mercator grid; for
\* every other value, the absent scale set of a custom-grid set included,
\* it fails with 'cannot create tile pyramid from unknown scale set' (a
\* ValueError) and returns no pyramid.
C3_ScaleSetInversion ==
    (tms # None /\ out.op = "to_tile_pyramid")
    => LET wkss == tms[1].wellKnownScaleSet
       IN /\ (wkss = Some(WKSS_GoogleCRS84Quad) /\ out.result.ok)
                => out.result.value.grid.type = "geodetic"
          /\ (wkss = Some(WKSS_GoogleMapsCompatible) /\ out.result.ok)
                => out.result.value.grid.type = "mercator"
          /\ wkss \notin {Some(WKSS_GoogleCRS84Quad),
                          Some(WKSS_GoogleMapsCompatible)}
                => /\ ~out.result.ok
                   /\ "value" \notin DOMAIN out.result
                   /\ out.result.error.type = "ValueError"
                   /\ out.result.error.msg =
                          "cannot create tile pyramid from unknown scale set"

\* C3 witness: the set built from a custom-grid pyramid has no scale set
\* and its inversion fails
C3_Witness ==
    /\ RoundTripDone
    /\ item[1].tile_pyramid.grid.type = "custom"
    /\ tms[1].identifier = "custom"
    /\ tms[1].wellKnownScaleSet = None
    /\ ~out.result.ok

Built == item # None /\ out.op = "_tile_matrix_set"

\* C4: from_tile_pyramid chooses identifier, CRS and scale set by the grid
\* type only: geodetic gives WorldCRS84Quad, the CRS84 URI and the
\* GoogleCRS84Quad scale set; mercator gives WebMercatorQuad, the EPSG 3857
\* URI and the GoogleMapsCompatible scale set; every other grid type gives
\* custom, the URN urn:ogc:def:crs:{authority}::{code} of the pyramid CRS
\* and no scale set; the identifier is one of these three strings.  (The
\* build fails only for a CRS without an authority code.)
C4_BuilderDispatch ==
    Built
    => LET tp == item[1].tile_pyramid
           r == out.result
       IN /\ ~r.ok <=> to_authority(tp.grid.crs) = None
          /\ r.ok =>
                /\ r.value.identifier
                       \in {"WorldCRS84Quad", "WebMercatorQuad", "custom"}
                /\ tp.grid.type = "geodetic" =>
                      /\ r.value.identifier = "WorldCRS84Quad"
                      /\ r.value.supportedCRS =
                             "http://www.opengis.net/def/crs/OGC/1.3/CRS84"
                      /\ r.value.wellKnownScaleSet = Some(
                             "http://www.opengis.net/def/wkss/OGC/1.0/GoogleCRS84Quad")
                /\ tp.grid.type = "mercator" =>
                      /\ r.value.identifier = "WebMercatorQuad"
                      /\ r.value.supportedCRS =
                             "http://www.opengis.net/def/crs/EPSG/0/3857"
                      /\ r.value.wellKnownScaleSet = Some(
                             "http://www.opengis.net/def/wkss/OGC/1.0/GoogleMapsCompatible")
                /\ tp.grid.type \notin {"geodetic", "mercator"} =>
                      /\ r.value.identifier = "custom"
                      /\ tp.grid.crs = "EPSG:32630" =>
                            r.value.supportedCRS = "urn:ogc:def:crs:EPSG::32630"
                      /\ r.value.wellKnownScaleSet = None

\* C4 witness: a custom-grid pyramid with metatiling 4 gives the custom set
C4_Witness ==
    /\ Built
    /\ item[1].tile_pyramid.grid.type = "custom"
    /\ item[1].tile_pyramid.metatiling = 4
    /\ out.result.ok
    /\ out.result.value.identifier = "custom"
    /\ out.result.value.supportedCRS = "urn:ogc:def:crs:EPSG::32630"

\* C5: the tileMatrix list built by from_tile_pyramid(p, Z) has exactly one
\* entry per zoom of Z, in ascending zoom order, with identifier str(zoom),
\* with the pyramid's tile and matrix sizes at that zoom and with
\* topLeftCorner (pyramid.left, pyramid.top).
C5_OneMatrixPerZoom ==
    (Built /\ out.result.ok)
    => LET tp == item[1].tile_pyramid
           Z == item[1].zoom_levels
           l == out.result.value.tileMatrix
       IN /\ Len(l) = Cardinality(Z)
          /\ {int(l[i].identifier) : i \in 1..Len(l)} = Z
          /\ \A i \in 1..Len(l) :
                /\ l[i].identifier = str(int(l[i].identifier))
                /\ i < Len(l) =>
                      int(l[i].identifier) < int(l[i + 1].identifier)
                /\ LET z == int(l[i].identifier)
                   IN /\ l[i].tileWidth = tile_width(tp, z)
                      /\ l[i].tileHeight = tile_height(tp, z)
                      /\ l[i].matrixWidth = matrix_width(tp, z)
                      /\ l[i].matrixHeight = matrix_height(tp, z)
                      /\ l[i].topLeftCorner =
                             <<tp.grid.bounds.left, tp.grid.bounds.top>>

\* C5 witness: the zooms 0..6 of a geodetic pyramid give seven entries,
\* the last one with identifier "6"
C5_Witness ==
    /\ Built /\ out.result.ok
    /\ item[1].tile_pyramid.grid.type = "geodetic"
    /\ item[1].tile_pyramid.metatiling = 4
    /\ item[1].zoom_levels = 0..6
    /\ Len(out.result.value.tileMatrix) = 7
    /\ out.result.value.tileMatrix[7].identifier = "6"
    /\ out.result.value.tileMatrix[7].matrixWidth = 32

----------------------------------------------------------------------------
(* Claims on the effective bounds and the tile limits (SpecItem) *)

BoundsRead == item # None /\ out.op = "_stacta_bounds"

\* C6: for every item and every override bounds (inside, partly
\* overlapping or wholly outside the pyramid), after any sequence of extend
\* calls, the clamped effective bounds never extend beyond the pyramid on
\* any side: pyramid.left <= left, right <= pyramid.right,
\* pyramid.bottom <= bottom, top <= pyramid.top, in the pyramid's CRS.
C6_BoundsClamped ==
    BoundsRead
    => LET tpb == item[1].tile_pyramid.grid.bounds
           c == out.clamped
       IN /\ tpb.left <= c.left /\ c.right <= tpb.right
          /\ tpb.bottom <= c.bottom /\ c.top <= tpb.top
          /\ out.result.ok =>
                /\ out.result.value.crs = Some(item[1].tile_pyramid.grid.crs)
                /\ tpb.left <= out.result.value.left
                /\ out.result.value.left <= out.result.value.right
                /\ out.result.value.right <= tpb.right
                /\ tpb.bottom <= out.result.value.bottom
                /\ out.result.value.bottom <= out.result.value.top
                /\ out.result.value.top <= tpb.top

\* C6 witness: an item extended by bounds reaching beyond the pyramid's
\* right and bottom sides has its effective bounds cut at these sides
C6_Witness ==
    /\ BoundsRead
    /\ item[1].bounds # None
    /\ LET tpb == item[1].tile_pyramid.grid.bounds
           w == tpb.right - tpb.left
       IN /\ item[1].bounds[1].right = tpb.right + w \div 4 + 1
          /\ item[1].bounds[1].bottom < tpb.bottom
          /\ item[1].bounds[1].left > tpb.left
          /\ out.result.ok
          /\ out.result.value.right = tpb.right
          /\ out.result.value.bottom = tpb.bottom
          /\ out.result.value.left = item[1].bounds[1].left
          /\ out.result.value.left < out.result.value.right

\* C7: the clamped effective bounds of every item satisfy left <= right and
\* bottom <= top, for every override bounds including one that lies wholly
\* outside the pyramid's extent.
C7_ClampedBoundsOrdered ==
    BoundsRead
    => /\ out.clamped.left <= out.clamped.right
       /\ out.clamped.bottom <= out.clamped.top
       /\ out.result.ok

LinksRead ==
    /\ item # None /\ out.op = "_tile_matrix_links"
    /\ stacta_bounds(item[1]).ok
    /\ tile_matrix_set(item[1]).ok

\* the tile (col, row) of zoom z holds the point (x, y), edges included
TileHolds(tp, z, col, row, x, y) ==
    /\ col * XDen(tp) <= XNum(tp, x, z)
    /\ XNum(tp, x, z) <= (col + 1) * XDen(tp)
    /\ row * YDen(tp) <= YNum(tp, y, z)
    /\ YNum(tp, y, z) <= (row + 1) * YDen(tp)

\* the tile and the box have at least a point in common
TileTouches(tp, z, col, row, box) ==
    /\ col * XDen(tp) <= XNum(tp, box.right, z)
    /\ XNum(tp, box.left, z) <= (col + 1) * XDen(tp)
    /\ row * YDen(tp) <= YNum(tp, box.bottom, z)
    /\ YNum(tp, box.top, z) <= (row + 1) * YDen(tp)

\* the tile and the box share an area
TileOverlaps(tp, z, col, row, box) ==
    /\ col * XDen(tp) < XNum(tp, box.right, z)
    /\ XNum(tp, box.left, z) < (col + 1) * XDen(tp)
    /\ row * YDen(tp) < YNum(tp, box.bottom, z)
    /\ YNum(tp, box.top, z) < (row + 1) * YDen(tp)

TileLimitsRight(tp, z, lim, box) ==
    /\ TileHolds(tp, z, lim.min_tile_col, lim.min_tile_row,
                 box.left, box.top)
    /\ TileHolds(tp, z, lim.max_tile_col, lim.max_tile_row,
                 box.right, box.bottom)
    /\ \A col \in 0..(matrix_width(tp, z) - 1),
          row \in 0..(matrix_height(tp, z) - 1) :
          LET inside == /\ lim.min_tile_col <= col /\ col <= lim.max_tile_col
                        /\ lim.min_tile_row <= row /\ row <= lim.max_tile_row
          IN /\ TileOverlaps(tp, z, col, row, box) => inside
             /\ inside => TileTouches(tp, z, col, row, box)

\* C10: for every zoom z of the item's zoom levels, (min_tile_col,
\* min_tile_row) is the tile containing the clamped bounds' (left, top) and
\* (max_tile_col, max_tile_row) the tile containing (right, bottom), and
\* the inclusive rectangle between them is exactly the set of tiles at z
\* that intersect the item's footprint.
C10_TileLimits ==
    LinksRead
    => /\ out.result.ok
       /\ \A z \in item[1].zoom_levels :
             TileLimitsRight(item[1].tile_pyramid, z,
                             out.result.value.limits[str(z)],
                             stacta_bounds_clamped(item[1]))

\* the same for the footprints that have an area
AreaFootprintTileLimits ==
    (LinksRead
     /\ stacta_bounds_clamped(item[1]).left < stacta_bounds_clamped(item[1]).right
     /\ stacta_bounds_clamped(item[1]).bottom < stacta_bounds_clamped(item[1]).top)
    => /\ out.result.ok
       /\ \A z \in item[1].zoom_levels :
             TileLimitsRight(item[1].tile_pyramid, z,
                             out.result.value.limits[str(z)],
                             stacta_bounds_clamped(item[1]))

----------------------------------------------------------------------------
(* Claims on the computed metadata (SpecMeta) *)

\* C8: stac_extensions always contains the tiled-assets v1.0.0 URL and
\* contains the EO v1.1.0 URL iff item_metadata has an eo:bands key;
\* whenever item_metadata has an eo:bands key, whatever its value, the
\* asset template carries that value verbatim, so that the EO extension is
\* never declared for an asset template without eo:bands.
C8_EoMetadata ==
    item # None
    => LET md == item[1].item_metadata
           template == asset_templates(item[1])[item[1].asset_template_name]
       IN /\ out.op = "stac_extensions" =>
                /\ "https://stac-extensions.github.io/tiled-assets/v1.0.0/schema.json"
                       \in Range(out.result)
                /\ "https://stac-extensions.github.io/eo/v1.1.0/schema.json"
                       \in Range(out.result) <=> Has(md, "eo:bands")
                /\ EO_SCHEMA \in Range(out.result) => Has(template, "eo:bands")
          /\ out.op = "asset_templates" =>
                /\ DOMAIN out.result = {item[1].asset_template_name}
                /\ Has(md, "eo:bands") =>
                      /\ Has(out.result[item[1].asset_template_name], "eo:bands")
                      /\ out.result[item[1].asset_template_name]["eo:bands"]
                             = md["eo:bands"]

PropertiesRead == item # None /\ out.op = "properties" /\ out.result.ok

CallerOf(self) == Get(self.item_metadata, "properties", EmptyDict)

\* C9 as claimed: the result contains every caller-supplied property,
\* except that datetime is start_datetime if supplied, else end_datetime if
\* supplied, else the current time, and collection is the item id (a value
\* of None counts as not supplied).
C9_OnlyDatetimeAndCollection ==
    PropertiesRead
    => LET caller == CallerOf(item[1])
           r == out.result.value
           supplied(k) == Has(caller, k) /\ caller[k] # PyNone
       IN /\ \A k \in DOMAIN caller \ {"datetime", "collection"} :
                Has(r, k) /\ r[k] = caller[k]
          /\ r.datetime =
                 (IF supplied("start_datetime") THEN caller.start_datetime
                  ELSE IF supplied("end_datetime") THEN caller.end_datetime
                  ELSE r.datetime)
          /\ (~supplied("start_datetime") /\ ~supplied("end_datetime"))
                => r.datetime \in Clock
          /\ r.collection = item[1].id

\* the keys the computed properties always set, and eo:bands when
\* item_metadata holds a non-empty eo:bands
ComputedKeys(self) ==
    {"datetime", "collection", "tiles:tile_matrix_links",
     "tiles:tile_matrix_sets"}
    \cup (IF Has(self.item_metadata, "eo:bands")
             /\ self.item_metadata["eo:bands"] # <<>>
          THEN {"eo:bands"} ELSE {})

\* C9 amended: the result contains every caller-supplied property except
\* datetime, collection, tiles:tile_matrix_links, tiles:tile_matrix_sets
\* and (when item_metadata holds a non-empty eo:bands) eo:bands, which are
\* overridden: datetime is start_datetime if supplied and neither None nor
\* empty, else end_datetime if supplied and neither None nor empty, else
\* the current UTC time as a string; collection is the item id; the two
\* tiles: keys hold the computed links and tile matrix set; eo:bands holds
\* the item_metadata value.
C9_ComputedProperties ==
    PropertiesRead
    => LET self == item[1]
           caller == CallerOf(self)
           r == out.result.value
           supplied(k) == Has(caller, k) /\ caller[k] \notin {PyNone, ""}
           identifier == tile_matrix_set(self).value.identifier
       IN /\ DOMAIN r = DOMAIN caller \cup ComputedKeys(self)
          /\ \A k \in DOMAIN caller \ ComputedKeys(self) : r[k] = caller[k]
          /\ supplied("start_datetime") => r.datetime = caller.start_datetime
          /\ (~supplied("start_datetime") /\ supplied("end_datetime"))
                => r.datetime = caller.end_datetime
          /\ (~supplied("start_datetime") /\ ~supplied("end_datetime"))
                => r.datetime \in Clock
          /\ r.collection = self.id
          /\ DOMAIN r["tiles:tile_matrix_links"] = {identifier}
          /\ r["tiles:tile_matrix_links"][identifier]
                 = tile_matrix_links(self).value
          /\ DOMAIN r["tiles:tile_matrix_sets"] = {identifier}
          /\ r["tiles:tile_matrix_sets"][identifier].identifier = identifier
          /\ "eo:bands" \in ComputedKeys(self)
                => r["eo:bands"] = self.item_metadata["eo:bands"]

\* C9 witness: the caller's datetime gives way to the caller's
\* start_datetime, the collection is the item id, the platform is kept
C9_Witness ==
    /\ PropertiesRead
    /\ LET caller == CallerOf(item[1])
           r == out.result.value
       IN /\ Has(caller, "datetime") /\ Has(caller, "start_datetime")
          /\ Has(caller, "platform")
          /\ r.datetime = caller.start_datetime
          /\ r.datetime # caller.datetime
          /\ r.collection = item[1].id
          /\ r.platform = caller.platform

----------------------------------------------------------------------------
(* Claims on extend and on the equality of items (SpecExtend) *)

Extended == item # None /\ out.op = "extend"

\* the stored fields extend never touches
OtherFields(self) ==
    <<self.id, self.tile_pyramid, self.stac_version, self.assets,
      self.item_metadata, self.asset_template, self.mime_type,
      self.asset_template_name>>

\* the length of the tileMatrix list of an item
NumTileMatrices(self) == Len(tile_matrix_set(self).value.tileMatrix)

\* C11: after extend(zoom_levels=Z), for every accepted form of Z (a
\* single integer including 0, a list, a range), the item's zoom levels are
\* exactly the old levels united with Z while the other stored fields are
\* unchanged (the bounds too when none are passed), so that the tileMatrix
\* list never gets shorter and has an entry for every level passed.
C11_ExtendUnionsZooms ==
    (Extended /\ out.zoom_levels # None)
    => LET Z == ZoomLevels_from_inp(out.zoom_levels[1])
       IN /\ item[1].zoom_levels = out.before.zoom_levels \cup Z
          /\ OtherFields(item[1]) = OtherFields(out.before)
          /\ out.bounds = None => item[1].bounds = out.before.bounds
          /\ NumTileMatrices(item[1]) >= NumTileMatrices(out.before)
          /\ \A z \in Z :
                \E i \in 1..NumTileMatrices(item[1]) :
                   tile_matrix_set(item[1]).value.tileMatrix[i].identifier
                       = str(z)

\* the same for every Z but the single integer 0
ExtendUnionsZoomsButZero ==
    (Extended /\ out.zoom_levels # None /\ out.zoom_levels # Some(ZoomInt(0)))
    => LET Z == ZoomLevels_from_inp(out.zoom_levels[1])
       IN /\ item[1].zoom_levels = out.before.zoom_levels \cup Z
          /\ OtherFields(item[1]) = OtherFields(out.before)
          /\ out.bounds = None => item[1].bounds = out.before.bounds
          /\ NumTileMatrices(item[1]) >= NumTileMatrices(out.before)

\* the zooms 0..5 extended by [6, 7] give 8 entries up to zoom 7
ExtendedBySixAndSeven ==
    /\ Extended
    /\ out.before.zoom_levels = 0..5
    /\ out.zoom_levels = Some(ZoomList(<<6, 7>>))
    /\ NumTileMatrices(item[1]) = 8
    /\ tile_matrix_set(item[1]).value.tileMatrix[8].identifier = "7"
\* extend was called with zoom levels the item already had, and no bounds
SubsetExtended ==
    /\ Extended
    /\ out.zoom_levels # None /\ out.bounds = None
    /\ ZoomLevels_from_inp(out.zoom_levels[1]) \subseteq out.before.zoom_levels

\* the datetime of the item's properties does not come from the clock
DatetimeSupplied(self) ==
    LET caller == Get(self.item_metadata, "properties", EmptyDict)
    IN \/ Truthy(Get(caller, "start_datetime", PyNone))
       \/ Truthy(Get(caller, "end_datetime", PyNone))

\* C12 as claimed: extend(zoom_levels=Z) with Z a subset of the item's zoom
\* levels leaves the document computed by to_item_dict() after the call
\* identical to the one computed before the call (two calls, two readings
\* of the clock), and the same extend twice gives the same item as once.
C12_SameDocumentAfterExtend ==
    /\ SubsetExtended
          => \A t1, t2 \in Clock :
                t1 # t2 => to_item_dict(out.before, t1)
                               = to_item_dict(item[1], t2)
    /\ Extended => extend(item[1], out.zoom_levels, out.bounds) = item[1]

\* C12 amended: extend(zoom_levels=Z) with Z a subset of the item's zoom
\* levels leaves every stored field unchanged, so that to_item_dict()
\* computes the same document as before the call at the same reading of the
\* clock, and the identical document at any time when the properties supply
\* a start_datetime or end_datetime; without them the two documents differ
\* in the clock-derived datetime.  The same extend twice gives the same
\* item as once.
C12_ExtendIdempotent ==
    /\ SubsetExtended
          => /\ item[1] = out.before
             /\ \A t \in Clock :
                   to_item_dict(out.before, t) = to_item_dict(item[1], t)
             /\ \A t1, t2 \in Clock :
                   (t1 # t2 /\ to_item_dict(item[1], t2).ok)
                   => /\ DatetimeSupplied(item[1]) <=>
                            to_item_dict(out.before, t1)
                                = to_item_dict(item[1], t2)
                      /\ [to_item_dict(out.before, t1).value
                             EXCEPT !.properties.datetime = t2]
                         = [to_item_dict(item[1], t2).value
                               EXCEPT !.properties.datetime = t2]
    /\ Extended => extend(item[1], out.zoom_levels, out.bounds) = item[1]

\* C12 witness: an item with the zooms 0..6 and a start_datetime after
\* extend(zoom_levels=range(1, 3)): the same document at any time
C12_Witness ==
    /\ SubsetExtended
    /\ out.zoom_levels = Some(ZoomRange(1, 3))
    /\ {1, 2} \subseteq out.before.zoom_levels
    /\ DatetimeSupplied(item[1])
    /\ \A t1, t2 \in Clock :
          /\ to_item_dict(item[1], t2).ok
          /\ to_item_dict(out.before, t1) = to_item_dict(item[1], t2)
\* C13: after extend(bounds=b) the item's override bounds are b itself
\* when the item had none, and otherwise the smallest rectangle enclosing
\* the previous override bounds and b; zoom levels (when none are passed)
\* and every other stored field are unchanged; extend with neither
\* argument changes nothing.
C13_ExtendUnionsBounds ==
    Extended
    => /\ out.bounds # None =>
             LET b == out.bounds[1]
                 old == out.before.bounds
                 new == item[1].bounds
             IN /\ new # None
                /\ old = None => new[1] = b
                /\ old # None =>
                      /\ new[1].left = Min(old[1].left, b.left)
                      /\ new[1].bottom = Min(old[1].bottom, b.bottom)
                      /\ new[1].right = Max(old[1].right, b.right)
                      /\ new[1].top = Max(old[1].top, b.top)
                      /\ new[1].crs = old[1].crs
                /\ OtherFields(item[1]) = OtherFields(out.before)
                /\ out.zoom_levels = None =>
                      item[1].zoom_levels = out.before.zoom_levels
       /\ (out.bounds = None /\ out.zoom_levels = None) =>
             item[1] = out.before

\* C13 witness: override bounds (90, 0, 270, 45) extended by
\* (-90, -45, 0, 0) become (-90, -45, 270, 45), neither of the two
C13_Witness ==
    /\ Extended
    /\ out.zoom_levels = None
    /\ out.before.bounds = Some(Bounds(90, 0, 270, 45, None))
    /\ out.bounds = Some(Bounds(-90, -45, 0, 0, None))
    /\ item[1].bounds = Some(Bounds(-90, -45, 270, 45, None))
Compared == item # None /\ twin # None /\ out.op = "__eq__"

\* C14: two STACTA items compare equal if and only if their fully computed
\* documents (to_item_dict, read at the same time) are identical, however
\* each was constructed; e.g. an item without override bounds equals an
\* item whose override bounds are the pyramid's own bounds.
C14_EqualIffSameDocument ==
    Compared
    => \A t \in Clock :
          out.result <=> to_item_dict(item[1], t) = to_item_dict(twin[1], t)

\* the two items have the same document and differ in a stored field
SameDocumentDifferentFields ==
    /\ Compared
    /\ item[1].bounds = None
    /\ twin[1].bounds = Some(Bounds(-180, -90, 180, 90, None))
    /\ \A t \in Clock :
          /\ to_item_dict(item[1], t).ok
          /\ to_item_dict(item[1], t) = to_item_dict(twin[1], t)
    /\ ~out.result

\* C15: two items built by from_tile_pyramid from identical (id,
\* tile_pyramid, zoom_levels, item_metadata) are equal; after extend on one
\* of them with at least one zoom level it did not have, the two are no
\* longer equal.
C15_EqualUntilExtended ==
    /\ (Compared /\ item[1] = twin[1]) => out.result
    /\ (Extended /\ out.before = twin[1] /\ out.zoom_levels # None
        /\ ~(ZoomLevels_from_inp(out.zoom_levels[1])
                \subseteq out.before.zoom_levels))
          => ~dataclass_eq(item[1], twin[1])

\* the same for every extend but the one by the single integer 0
UnequalAfterExtendButZero ==
    (Extended /\ out.before = twin[1] /\ out.zoom_levels # None
     /\ out.zoom_levels # Some(ZoomInt(0))
     /\ ~(ZoomLevels_from_inp(out.zoom_levels[1])
             \subseteq out.before.zoom_levels))
    => ~dataclass_eq(item[1], twin[1])
\* the identifiers of the TileMatrix entries of a dumped set
TileMatrixIdentifiers(set) ==
    {set.tileMatrix[i].identifier : i \in 1..Len(set.tileMatrix)}

\* C20: after construction and after any sequence of extend calls, in the
\* computed properties the maps tiles:tile_matrix_links and
\* tiles:tile_matrix_sets are keyed by the same identifier, and the keys of
\* the links' limits are the TileMatrix identifiers of the set, both being
\* exactly the item's current zoom levels.
C20_LinksAndSetsInStep ==
    (item # None /\ twin # None)
    => LET p == properties(item[1], CHOOSE t \in Clock : TRUE)
       IN p.ok =>
             LET tml == p.value["tiles:tile_matrix_links"]
                 tms_ == p.value["tiles:tile_matrix_sets"]
             IN /\ DOMAIN tml = DOMAIN tms_
                /\ Cardinality(DOMAIN tms_) = 1
                /\ \A id \in DOMAIN tms_ :
                      /\ DOMAIN tml[id].limits
                             = TileMatrixIdentifiers(tms_[id])
                      /\ TileMatrixIdentifiers(tms_[id])
                             = {str(z) : z \in item[1].zoom_levels}
                      /\ tml[id].url = "#" \o tms_[id].identifier

\* C20 witness: after an extend by new zoom levels and new bounds the
\* limits and the set both have the zooms of before and the new ones
C20_Witness ==
    /\ Extended /\ twin # None
    /\ out.zoom_levels = Some(ZoomInt(2))
    /\ out.bounds # None
    /\ out.before.zoom_levels = {1}
    /\ item[1].zoom_levels = {1, 2}
    /\ LET p == properties(item[1], CHOOSE t \in Clock : TRUE)
       IN /\ p.ok
          /\ DOMAIN p.value["tiles:tile_matrix_links"] = {"WorldCRS84Quad"}
          /\ DOMAIN p.value["tiles:tile_matrix_links"]["WorldCRS84Quad"].limits
                 = {"1", "2"}
          /\ TileMatrixIdentifiers(
                 p.value["tiles:tile_matrix_sets"]["WorldCRS84Quad"])
                 = {"1", "2"}

----------------------------------------------------------------------------
(* Claims on from_item and to_item (SpecDoc) *)

ItemRead == out.op = "from_item" /\ out.result.ok
ReadSets == out.item.properties["tiles:tile_matrix_sets"]
ReadTemplates == out.item.extra_fields["asset_templates"]
\* the document with nothing after the first entry of either map
FirstEntriesOnly(doc) ==
    [doc EXCEPT
        !.properties = [datetime |-> doc.properties.datetime]
            @@ ("tiles:tile_matrix_sets" :>
                   SubSeq(doc.properties["tiles:tile_matrix_sets"], 1, 1)),
        !.extra_fields = [stac_extensions |-> doc.extra_fields.stac_extensions]
            @@ ("asset_templates" :>
                   SubSeq(doc.extra_fields["asset_templates"], 1, 1))]
ReadFields(self) ==
    <<self.id, self.tile_pyramid, self.zoom_levels, self.stac_version,
      self.assets, self.bounds, self.asset_template, self.mime_type,
      self.asset_template_name>>

\* C16: from_item takes the pyramid and the zoom levels from the first entry
\* of tiles:tile_matrix_sets and the template name, href and media type
\* from the first entry of asset_templates; the item read, but for the raw
\* properties it keeps as item_metadata, and the document computed from it
\* are those read from the document cut down to its first entries
C16_FirstEntriesOnly ==
    ItemRead =>
        LET r == out.result.value
            first == from_item(FirstEntriesOnly(out.item))
            set == model_validate(ReadSets[1][2])
        IN /\ item = Some(r)
           /\ r.tile_pyramid = to_tile_pyramid(set).value
           /\ r.zoom_levels =
                  {int(set.tileMatrix[i].identifier) :
                      i \in 1..Len(set.tileMatrix)}
           /\ ReadSets[1] = ReadWebMercatorQuad =>
                  /\ r.tile_pyramid = BufferedTilePyramid(MercatorGrid, 1)
                  /\ r.zoom_levels = {0}
           /\ ReadSets[1] = ReadWorldCRS84QuadMeta =>
                  /\ r.tile_pyramid = BufferedTilePyramid(GeodeticGrid, 2)
                  /\ r.zoom_levels = 1..MaxReadZoom + 1
           /\ r.asset_template_name = ReadTemplates[1][1]
           /\ r.asset_template = ReadTemplates[1][2].href
           /\ r.mime_type = ReadTemplates[1][2].type
           /\ first.ok
           /\ ReadFields(r) = ReadFields(first.value)
           /\ \A now \in Clock :
                 to_item_dict(r, now) = to_item_dict(first.value, now)

\* an item read from a document with two tile matrix sets and two asset
\* templates, the second of each unlike the first
C16_Witness ==
    /\ ItemRead
    /\ Len(ReadSets) = 2 /\ Len(ReadTemplates) = 2
    /\ ReadSets[1] = ReadWebMercatorQuad /\ ReadSets[2] = ReadWorldCRS84Quad
    /\ ReadTemplates[1] = ReadMask /\ ReadTemplates[2] = ReadBands
    /\ item[1].asset_template_name = "mask"

\* a mandatory field of the document is missing
MandatoryFieldMissing(doc) ==
    \/ ~Has(doc.properties, "tiles:tile_matrix_sets")
    \/ Len(doc.properties["tiles:tile_matrix_sets"]) = 0
    \/ doc.bbox = None
    \/ ~Has(doc.extra_fields, "asset_templates")
    \/ Len(doc.extra_fields["asset_templates"]) = 0

\* C17: from_item on a document without tiles:tile_matrix_sets (no key or
\* an empty map), without bbox or without asset_templates fails with a
\* ValueError and constructs no item
C17_MissingFieldIsValueError ==
    (out.op = "from_item" /\ MandatoryFieldMissing(out.item)) =>
        /\ ~out.result.ok
        /\ out.result.error.type = "ValueError"
        /\ item = None

\* the href of the one asset template of the item made by to_item
EmittedHref == out.result.value.item.asset_templates[item[1].asset_template_name].href
PrefixCalledFor == ~out.relative_paths \/ out.asset_basepath # None
IsAbsolute(path) == Len(path) > 0 /\ path[1] = "/"

\* C18: to_item puts a basepath in front of the template href iff
\* relative_paths is false or asset_basepath is given; the basepath is the
\* absolute asset_basepath when given and the absolute parent directory of
\* self_href otherwise; when a basepath is called for and neither is given
\* to_item raises ValueError and returns no item
C18_HrefRewriting ==
    out.op = "to_item" =>
        LET stored == item[1].asset_template
            basepath == IF out.asset_basepath # None
                        THEN absolute_path(out.asset_basepath[1])
                        ELSE parent(absolute_path(out.self_href[1]))
        IN IF PrefixCalledFor /\ out.asset_basepath = None
              /\ out.self_href = None
           THEN /\ ~out.result.ok
                /\ out.result.error.type = "ValueError"
           ELSE /\ out.result.ok
                /\ ~PrefixCalledFor => EmittedHref = stored
                /\ PrefixCalledFor =>
                      /\ IsAbsolute(basepath)
                      /\ EmittedHref = basepath \o <<"/">> \o stored
                      /\ out.asset_basepath = Some(<<"tiles">>) =>
                            basepath = WorkingDirectory \o <<"/", "tiles">>
                      /\ (out.asset_basepath = None
                          /\ out.self_href = Some(<<"foo", "/", "bar.json">>))
                            => basepath = WorkingDirectory \o <<"/", "foo">>
                      /\ (out.asset_basepath = None
                          /\ out.self_href =
                                 Some(<<"/", "data", "/", "bar.json">>))
                            => basepath = <<"/", "data">>

\* relative_paths false, no asset_basepath, a relative self_href: the href
\* starts with the absolute path of the directory of self_href
C18_Witness ==
    /\ out.op = "to_item" /\ out.result.ok
    /\ ~out.relative_paths /\ out.asset_basepath = None
    /\ out.self_href = Some(<<"foo", "/", "bar.json">>)
    /\ EmittedHref = WorkingDirectory \o <<"/", "foo", "/">>
                         \o item[1].asset_template

\* the template with old placeholders replaced by the new ones, token by
\* token
Renamed(template, renaming) ==
    [i \in 1..Len(template) |->
        IF template[i] \in DOMAIN renaming THEN renaming[template[i]]
        ELSE template[i]]
TilePlaceholders ==
    ("{zoom}" :> "{TileMatrix}") @@ ("{row}" :> "{TileRow}")
        @@ ("{col}" :> "{TileCol}")

\* C19 as stated: from_tile_pyramid stores the template with {zoom}, {row}
\* and {col} replaced by {TileMatrix}, {TileRow} and {TileCol} and nothing
\* else changed; to_item with relative_paths and no asset_basepath emits
\* the stored template
C19_PlaceholdersRenamed ==
    /\ out.op = "from_tile_pyramid" =>
          item[1].asset_template = Renamed(out.asset_template, TilePlaceholders)
    /\ (out.op = "to_item" /\ out.relative_paths /\ out.asset_basepath = None)
          => (out.result.ok /\ EmittedHref = item[1].asset_template)

\* C19, amended: {extension} is replaced by tif as well, and a template
\* written with {TileMatrix}, {TileRow}, {TileCol} and no {extension} is
\* stored unchanged
C19_PlaceholdersAndExtensionRenamed ==
    /\ out.op = "from_tile_pyramid" =>
          /\ item[1].asset_template =
                 Renamed(out.asset_template,
                         TilePlaceholders @@ ("{extension}" :> "tif"))
          /\ out.asset_template = DefaultAssetTemplate =>
                 item[1].asset_template =
                     <<"{TileMatrix}", "/", "{TileRow}", "/", "{TileCol}",
                       ".tif">>
          /\ Range(out.asset_template)
                 \cap (DOMAIN TilePlaceholders \cup {"{extension}"}) = {}
                 => item[1].asset_template = out.asset_template
    /\ (out.op = "to_item" /\ out.relative_paths /\ out.asset_basepath = None)
          => (out.result.ok /\ EmittedHref = item[1].asset_template)

\* the default template, stored with the new placeholders, comes out of
\* to_item as it is stored
C19_Witness ==
    /\ out.op = "to_item" /\ out.relative_paths /\ out.asset_basepath = None
    /\ out.result.ok
    /\ item[1].item_metadata = EmptyDict
    /\ EmittedHref =
           <<"{TileMatrix}", "/", "{TileRow}", "/", "{TileCol}", ".tif">>

----------------------------------------------------------------------------
(* Claims on BoundingBox.from_bounds (SpecBox) *)

\* C27: BoundingBox.from_bounds of bounds with a CRS gives lowerCorner =
\* (left, bottom) and upperCorner = (right, top), the lower corner being
\* componentwise <= the upper one; without a CRS it raises ValueError
\* 'bounds.crs must be set'
C27_CornersOrdered ==
    out.op = "from_bounds" =>
        IF out.bounds.crs = None
        THEN /\ ~out.result.ok
             /\ out.result.error = [type |-> "ValueError",
                                    msg |-> "bounds.crs must be set"]
        ELSE /\ out.result.ok
             /\ out.result.value.lowerCorner =
                    <<out.bounds.left, out.bounds.bottom>>
             /\ out.result.value.upperCorner =
                    <<out.bounds.right, out.bounds.top>>
             /\ out.result.value.lowerCorner[1]
                    <= out.result.value.upperCorner[1]
             /\ out.result.value.lowerCorner[2]
                    <= out.result.value.upperCorner[2]

----------------------------------------------------------------------------
(* Further claims on the bounds and the tile limits (SpecItem) *)

\* C28: for every item whose effective bounds are valid and every zoom z
\* of its zoom levels the limits are computed and are a non-empty index
\* range inside the matrix: 0 <= min_tile_col <= max_tile_col <
\* matrix_width(z) and 0 <= min_tile_row <= max_tile_row < matrix_height(z)
C28_LimitsInsideMatrix ==
    LinksRead
    => /\ out.result.ok
       /\ \A z \in item[1].zoom_levels :
             LET lim == out.result.value.limits[str(z)]
                 tp == item[1].tile_pyramid
             IN /\ 0 <= lim.min_tile_col
                /\ lim.min_tile_col <= lim.max_tile_col
                /\ lim.max_tile_col < matrix_width(tp, z)
                /\ 0 <= lim.min_tile_row
                /\ lim.min_tile_row <= lim.max_tile_row
                /\ lim.max_tile_row < matrix_height(tp, z)

----------------------------------------------------------------------------
(* The coverage of an item across extend (SpecExtend) *)

\* the box <<left, bottom, right, top>> outer contains the box inner
BboxContains(outer, inner) ==
    /\ outer[1] <= inner[1] /\ outer[2] <= inner[2]
    /\ inner[3] <= outer[3] /\ inner[4] <= outer[4]
LimitsContain(outer, inner) ==
    /\ outer.min_tile_col <= inner.min_tile_col
    /\ inner.max_tile_col <= outer.max_tile_col
    /\ outer.min_tile_row <= inner.min_tile_row
    /\ inner.max_tile_row <= outer.max_tile_row
CoverageKept(before, after) ==
    /\ bbox(after).ok
    /\ BboxContains(bbox(after).value, bbox(before).value)
    /\ tile_matrix_links(after).ok
    /\ \A z \in before.zoom_levels :
          LimitsContain(tile_matrix_links(after).value.limits[str(z)],
                        tile_matrix_links(before).value.limits[str(z)])

\* C29: after extend(bounds=b) on an item, with or without override
\* bounds, the computed bbox contains the bbox computed before the call
\* and, for every zoom the item had, the limits contain those before
C29_ExtendKeepsCoverage ==
    (Extended /\ out.bounds # None
     /\ bbox(out.before).ok /\ tile_matrix_links(out.before).ok)
    => CoverageKept(out.before, item[1])

\* the same for the items that have override bounds before the call
ExtendKeepsCoverageOfOverride ==
    (Extended /\ out.bounds # None /\ out.before.bounds # None
     /\ bbox(out.before).ok /\ tile_matrix_links(out.before).ok)
    => CoverageKept(out.before, item[1])

----------------------------------------------------------------------------
(* Building again from the inverted pyramid (SpecTMS) *)

Rebuilt ==
    /\ item # None /\ tms # None /\ out.op = "from_tile_pyramid"
    /\ item[1].tile_pyramid.grid.type \in {"geodetic", "mercator"}

\* C26: for a tile matrix set T built from a geodetic or mercator pyramid
\* with metatiling in 1, 2, 4, ..., 512, from_tile_pyramid on
\* T.to_tile_pyramid() and T.to_zoom_levels() gives the tileMatrix list of
\* T, entry by entry, and the inferred metatiling is not larger than the
\* original one
C26_RebuildStable ==
    Rebuilt
    => /\ out.result.ok
       /\ Len(out.result.value.tileMatrix) = Len(tms[1].tileMatrix)
       /\ \A i \in 1..Len(tms[1].tileMatrix) :
             out.result.value.tileMatrix[i] = tms[1].tileMatrix[i]
       /\ out.tile_pyramid.grid.type = item[1].tile_pyramid.grid.type
       /\ out.tile_pyramid.metatiling <= item[1].tile_pyramid.metatiling

\* metatiling 512 over the zooms 0 and 2 is inferred as 8, and the set
\* built from metatiling 8 has the same two matrices
C26_Witness ==
    /\ Rebuilt
    /\ item[1].tile_pyramid.grid.type = "geodetic"
    /\ item[1].tile_pyramid.metatiling = 512
    /\ item[1].zoom_levels = {0, 2}
    /\ out.tile_pyramid.metatiling = 8
    /\ out.result.ok
    /\ out.result.value.tileMatrix = tms[1].tileMatrix

----------------------------------------------------------------------------
(* Claims on clean_exception (SpecErrors) *)

Cleaned == out.op = "clean_exception"
\* the objects reachable from an object through cause and context
RECURSIVE Chain(_, _)
Chain(heap, exc) ==
    IF exc = None THEN {}
    ELSE {exc[1]} \cup Chain(heap, heap[exc[1]].cause)
                  \cup Chain(heap, heap[exc[1]].context)

\* C23: clean_exception never raises; it returns None for None, the same
\* object for an exception that accepts attribute assignment and, for one
\* that rejects it, a new RuntimeError whose message holds the original
\* type name and message; no exception reachable from the result through
\* __cause__ and __context__ is of a type that rejects attribute
\* assignment
C23_CleanException ==
    Cleaned =>
        LET r == out.result
        IN /\ r.raised = None
           /\ out.exc = None => r.value = None
           /\ out.exc # None =>
                 LET e == out.heap[out.exc[1]]
                 IN /\ r.value # None
                    /\ ~is_frozen_exc(e) => r.value = out.exc
                    /\ is_frozen_exc(e) =>
                          /\ r.value[1] \notin DOMAIN out.heap
                          /\ r.heap[r.value[1]].type = "RuntimeError"
                          /\ e.type \in Range(r.heap[r.value[1]].msg)
                          /\ \A i \in 1..Len(e.msg) :
                                e.msg[i] \in Range(r.heap[r.value[1]].msg)
                    /\ \A i \in Chain(r.heap, r.value) :
                          ~is_frozen_exc(r.heap[i])

\* the same for chains in which every str(exc) returns
C23_CleanExceptionWhereStrReturns ==
    (Cleaned /\ \A i \in Chain(out.heap, out.exc) : ~str_raises(out.heap[i]))
    => C23_CleanException

----------------------------------------------------------------------------
(* The read accessors called twice (SpecMeta) *)

ReadAccessors ==
    {"to_item_dict", "geometry", "bbox", "stac_extensions", "properties",
     "asset_templates", "links"}
\* a step from the result of one call of an accessor to the result of the
\* next call of the same accessor
CalledAgain ==
    /\ item # None /\ out.op \in ReadAccessors /\ out'.op = out.op
\* a result with the datetime of its properties set to a fixed value
DatetimeAside(op, result) ==
    IF ~result.ok THEN result
    ELSE IF op = "properties"
    THEN Ok([result.value EXCEPT !.datetime = ""])
    ELSE Ok([result.value EXCEPT !.properties.datetime = ""])

\* C21 as claimed: two calls of a read accessor on the same item return
\* equal values, whatever the item_metadata, and leave every stored field
\* of the item unchanged
C21_ReadsPure ==
    [][CalledAgain => (out'.result = out.result /\ item' = item)]_vars

\* C21 amended: two calls of geometry, bbox, stac_extensions,
\* asset_templates and links return equal values; two calls of properties
\* and of to_item_dict return values that are equal but for the datetime
\* of the properties, and equal in that too when the item's properties
\* supply a start_datetime or an end_datetime; no call changes a stored
\* field of the item
C21_ReadsPureButClock ==
    [][CalledAgain =>
          /\ item' = item
          /\ out.op \notin {"properties", "to_item_dict"} =>
                out'.result = out.result
          /\ out.op \in {"properties", "to_item_dict"} =>
                /\ DatetimeAside(out.op, out'.result)
                       = DatetimeAside(out.op, out.result)
                /\ (DatetimeSupplied(item[1]) \/ ~out.result.ok) =>
                      out'.result = out.result]_vars

\* a document computed at the later reading of the clock for an item
\* without start_datetime and end_datetime: its datetime is that reading
C21_Witness ==
    /\ item # None /\ out.op = "to_item_dict" /\ out.result.ok
    /\ ~DatetimeSupplied(item[1])
    /\ out.result.value.properties.datetime = "2026-01-01 00:00:01+00:00"

----------------------------------------------------------------------------
(* Claims on writing and reading back (SpecRound) *)

ReadBackDone == item # None /\ out.op \in {"from_item", "to_item_again"}

\* C24: the item read back from x.to_item(self_href), x on a geodetic or
\* mercator pyramid, has the zoom levels and the grid type of x and
\* computes the bbox of x
C24_RoundTripBbox ==
    ReadBackDone
    => /\ twin # None
       /\ twin[1].zoom_levels = item[1].zoom_levels
       /\ twin[1].tile_pyramid.grid.type = item[1].tile_pyramid.grid.type
       /\ bbox(twin[1]) = bbox(item[1])

\* the same for the items on a geodetic pyramid, the bbox included; for
\* those on a mercator pyramid the zoom levels and the grid type only
RoundTripBboxGeodetic ==
    ReadBackDone
    => /\ twin # None
       /\ twin[1].zoom_levels = item[1].zoom_levels
       /\ twin[1].tile_pyramid.grid.type = item[1].tile_pyramid.grid.type
       /\ item[1].tile_pyramid.grid.type = "geodetic" =>
             bbox(twin[1]) = bbox(item[1])

\* C25: the item read back from x.to_item(self_href), x built with
\* properties in its item_metadata, computes properties that contain those
\* of the caller and the datetime of x; written again it has the
\* properties that were written
C25_RoundTripMetadata ==
    (ReadBackDone /\ Has(item[1].item_metadata, "properties"))
    => /\ twin # None
       /\ LET caller == item[1].item_metadata.properties
              again == properties(twin[1], out.now)
          IN /\ again.ok
             /\ \A k \in DOMAIN caller :
                   Has(again.value, k) /\ again.value[k] = caller[k]
             /\ again.value.datetime = out.written.properties.datetime
       /\ out.op = "to_item_again" =>
             /\ out.result.ok
             /\ out.result.value.properties = out.written.properties

----------------------------------------------------------------------------
(* Claims on extend called from two threads (SpecThreads) *)

BothReturned == \A t \in Threads : calls[t].pc = "returned"

\* the levels both calls were given
ArgumentLevels ==
    UNION {ZoomLevels_from_inp(calls[t].zoom_levels[1]) : t \in Threads}

\* the levels of the arguments that are true in Python
TruthyArgumentLevels ==
    UNION {IF ZoomLevelsLikeTruthy(calls[t].zoom_levels[1])
           THEN ZoomLevels_from_inp(calls[t].zoom_levels[1]) ELSE {}
           : t \in Threads}

\* two interleaved calls have returned and the levels of one are missing
LostUpdate ==
    /\ BothReturned /\ out.interleaved
    /\ \E t \in Threads :
          /\ ZoomLevelsLikeTruthy(calls[t].zoom_levels[1])
          /\ ~(ZoomLevels_from_inp(calls[t].zoom_levels[1])
                  \subseteq item[1].zoom_levels)

\* C22: two extend(zoom_levels=...) calls on one item that run one after
\* the other, in either order, end with the union of the initial levels and
\* both arguments; interleaved calls end with the initial levels and some
\* of the levels of the arguments
C22_ExtendNotAtomic ==
    BothReturned
    => /\ out.initial \subseteq item[1].zoom_levels
       /\ item[1].zoom_levels \subseteq out.initial \cup ArgumentLevels
       /\ ~out.interleaved =>
             item[1].zoom_levels = out.initial \cup ArgumentLevels

\* the same with the arguments that are true in Python: the calls one
\* after the other end with the initial levels and those of both such
\* arguments
ExtendSerialUnionOfTruthy ==
    BothReturned
    => /\ out.initial \subseteq item[1].zoom_levels
       /\ item[1].zoom_levels \subseteq out.initial \cup TruthyArgumentLevels
       /\ ~out.interleaved =>
             item[1].zoom_levels = out.initial \cup TruthyArgumentLevels

\* no interleaving loses the levels of a call
NoLostUpdate == ~LostUpdate

----------------------------------------------------------------------------
(* Claims on TiledAsset.to_asset (SpecAsset) *)

\* to_asset was called on a tiled asset that held type and href
ToAssetCalled ==
    /\ out.op \in {"to_asset", "to_asset_again"}
    /\ {"type", "href"} \subseteq DOMAIN out.before.asset_kwargs

\* C30: to_asset leaves the TiledAsset as it was, asset_kwargs still with
\* type and href; a second call with the same arguments returns an Asset
\* equal to that of the first, whose href is
\* STACTA:{item_href}:{asset name}:{tile matrix set identifier}
C30_ToAssetLeavesObject ==
    ToAssetCalled
    => /\ tiled_asset[1] = out.before
       /\ {"type", "href"} \subseteq DOMAIN tiled_asset[1].asset_kwargs
       /\ (out.op = "to_asset_again" /\ out.first.ok) =>
             /\ out.result.ok
             /\ out.result.value = out.first.value
             /\ out.result.value.href =
                   <<"STACTA:", out.item_href, ":",
                     asset_name_or(out.asset_name, out.before.name), ":",
                     out.before.tile_matrix_set.identifier>>

\* the first call on a tiled asset with type and href and keywords of
\* Asset: it returns the Asset with the href of the format and the type
\* as media_type, and every field but asset_kwargs is left as it was
ToAssetFirstCall ==
    (ToAssetCalled /\ out.op = "to_asset"
        /\ DOMAIN out.before.asset_kwargs
              \subseteq AssetKeywords \cup {"type", "href"})
    => /\ out.result.ok
       /\ out.result.value.href =
             <<"STACTA:", out.item_href, ":",
               asset_name_or(out.asset_name, out.before.name), ":",
               out.before.tile_matrix_set.identifier>>
       /\ out.result.value.media_type = out.before.asset_kwargs["type"]
       /\ [tiled_asset[1] EXCEPT !.asset_kwargs = out.before.asset_kwargs]
             = out.before

\* the second call fails: the first has taken type out of asset_kwargs
ToAssetSecondCallRaises ==
    (ToAssetCalled /\ out.op = "to_asset_again")
    => /\ ~out.result.ok
       /\ out.result.error.type = "KeyError"

====
